---- MODULE Spec2Model ----
(***************************************************************************)
(* A state-machine model of the stack-based bytecode virtual machine       *)
(* (src/src/vm): the Value variant, the operand stack, the call stack,     *)
(* the heap accounting, the instruction dispatcher and the runtime loop.   *)
(***************************************************************************)
EXTENDS Integers, Sequences, FiniteSets, TLC

(***************************************************************************)
(* Bounds of the model.                                                    *)
(***************************************************************************)
\* Largest instruction quota handed to VirtualMachine::with_max_instructions.
MaxQuota == 6
\* Longest program enumerated over InstrAlphabet (besides the scenario programs).
MaxGenLen == 2
\* Largest capacity handed to OperandStack::with_capacity and largest
\* max_depth handed to CallStack::with_max_depth in the component machines.
MaxCap == 3
\* Largest instruction_count the model lets step reach (step has no quota).
MaxCount == 8
\* Most objects the VM's heap allocates over its life (reset keeps the heap).
MaxObjects == 2
\* Number of API calls the component machines (stack, call stack) make.
MaxOps == 5
\* Number of instructions the dispatcher executes in a row on a drawn stack.
MaxChain == 2
\* Most instruction executions a profiler records over its life (reset and
\* load keep the profiler).
MaxProfiled == 4

(***************************************************************************)
(* Program constants.                                                      *)
(***************************************************************************)
MAX_STACK_SIZE == 1000000
DEFAULT_MAX_DEPTH == 10000
\* std::mem::size_of::<Object>() on a 64-bit target: a HashMap<String, Value>
\* with the default hasher (hashbrown RawTable 32 bytes + RandomState 16 bytes).
OBJECT_SIZE == 48
\* size_of::<String>(): pointer, capacity, length.
STRING_SIZE == 24
\* size_of::<(String, Value)>(): a 24-byte String and a Value, whose largest
\* variant is a String whose capacity niche holds the discriminant.
FIELD_SLOT_SIZE == 48
\* `negative i64 as usize` is 2^64 - |i|, larger than any length the model
\* builds; the model's integers stop at 2^31 - 1, which stands for it.
HUGE_USIZE == 2147483647

(***************************************************************************)
(* types.rs: Value.  Every Value is a record of one shape so that any two  *)
(* Values can be compared: tag, integer payload i (numerator of a Float,   *)
(* object id of a GcObject), denominator d of a Float, boolean payload b,  *)
(* string payload s, and the fields f (field name -> Value) of the Object a *)
(* GcObject points to: a GcPtr carries its Arc<Object>, which nothing can  *)
(* mutate once allocated.                                                  *)
(***************************************************************************)
\* Object::new(): no fields.
NoFields == [n \in {} |-> 0]
MkValue(tag, i, d, b, s) ==
    [tag |-> tag, i |-> i, d |-> d, b |-> b, s |-> s, f |-> NoFields, hi |-> 0]
IntV(n) == MkValue("Integer", n, 1, FALSE, "")
\* Value::Integer(hi * 2^63 + i).  An i64 near zero has hi = 0; i64::MIN + i
\* has hi = -1 and i >= 0; i64::MAX + 1 + i has hi = 1 and i < 0.  The model
\* draws i within a few units of its anchor, which makes the pair unique.
I64V(hi, i) == [IntV(i) EXCEPT !.hi = hi]
I64_MIN == I64V(-1, 0)
I64_MAX == I64V(1, -1)
\* `*i == 0` for an Integer.
IsZero(v) == v.hi = 0 /\ v.i = 0
BoolV(x) == MkValue("Boolean", 0, 1, x, "")
StrV(str) == MkValue("String", 0, 1, FALSE, str)
GcStringV(id, str) == MkValue("GcString", id, 1, FALSE, str)
GcObjectV(id) == MkValue("GcObject", id, 1, FALSE, "")
\* Value::GcObject of an Object allocated with the given fields.
GcObjectWithV(id, fields) == [GcObjectV(id) EXCEPT !.f = fields]
NullV == MkValue("Null", 0, 1, FALSE, "")
\* Option<Value>::None, the absent operand of an instruction.
NoOperand == MkValue("None", 0, 1, FALSE, "")

Abs(x) == IF x < 0 THEN -x ELSE x

\* F(v) with v evaluated once: `let r = v; F(r)`.
Bind(v, F(_)) == CHOOSE y \in { F(r) : r \in {v} } : TRUE
RECURSIVE Gcd(_, _)
Gcd(a, b) == IF b = 0 THEN a ELSE Gcd(b, a % b)
\* Value::Float(x), x the binary64 nearest to the rational n/d, kept in
\* lowest terms with d > 0: n/d itself when d is a power of two, the
\* correctly rounded quotient (9.0 / 14.0 = 0.6428571428571429 for n = 9,
\* d = 14) when it is not.  Rounding is one-to-one and keeps the order on the
\* small rationals of the model, so equality, comparison and is_truthy may
\* read n and d.  Every Float the model draws is dyadic, `+`, `-` and `*` of
\* dyadic operands are exact in binary64, and `/` returns the binary64
\* nearest to the exact quotient; no instruction of the model does
\* arithmetic on a rounded quotient.
FloatV(n, d) ==
    LET g == Gcd(Abs(n), Abs(d))
        sgn == IF d < 0 THEN -1 ELSE 1
    IN MkValue("Float", sgn * (n \div g), sgn * (d \div g), FALSE, "")

\* is_truthy taking Null for true.
is_truthy_NullTrue(v) ==
    CASE v.tag = "Boolean" -> v.b
      [] v.tag = "Integer" -> v.i # 0
      [] v.tag = "Float" -> v.i # 0
      [] v.tag = "String" -> v.s # ""
      [] v.tag = "GcString" -> v.s # ""
      [] OTHER -> TRUE

is_truthy(v) ==
    CASE v.tag = "Boolean" -> v.b
      [] v.tag = "Integer" -> ~IsZero(v)
      [] v.tag = "Float" -> v.i # 0
      [] v.tag = "String" -> v.s # ""
      [] v.tag = "GcString" -> v.s # ""
      [] v.tag = "GcObject" -> TRUE
      [] OTHER -> FALSE

IsNumeric(v) == v.tag \in {"Integer", "Float"}
RECURSIVE IsPowerOfTwo(_)
IsPowerOfTwo(d) == d = 1 \/ (d > 1 /\ d % 2 = 0 /\ IsPowerOfTwo(d \div 2))
\* v is not a rounded quotient: the rational it carries is its binary64.
IsExact(v) == v.tag = "Float" => IsPowerOfTwo(v.d)
\* `a as f64` for an Integer, the identity for a Float: numerator and denominator.
Num(v) == v.i
Den(v) == IF v.tag = "Float" THEN v.d ELSE 1

(***************************************************************************)
(* instruction.rs: Instruction.                                            *)
(***************************************************************************)
Instr(op, operand) == [opcode |-> op, operand |-> operand]
Op0(op) == Instr(op, NoOperand)
OpI(op, n) == Instr(op, IntV(n))

(***************************************************************************)
(* stack.rs: OperandStack.  max_size is Option<usize>.                     *)
(***************************************************************************)
NoneUsize == [some |-> FALSE, val |-> 0]
SomeUsize(n) == [some |-> TRUE, val |-> n]
Min(a, b) == IF a < b THEN a ELSE b

OperandStack_new == [values |-> <<>>, max_size |-> NoneUsize]
OperandStack_with_capacity(max_size) ==
    [values |-> <<>>, max_size |-> SomeUsize(Min(max_size, MAX_STACK_SIZE))]

\* StackFull accepting one value beyond the ceiling.
StackFull_OffByOne(st) ==
    \/ ~st.max_size.some /\ Len(st.values) > MAX_STACK_SIZE
    \/ st.max_size.some /\ Len(st.values) > st.max_size.val

\* The overflow test shared by push (which panics) and try_push (which returns
\* Overflow).
StackFull(st) ==
    \/ ~st.max_size.some /\ Len(st.values) >= MAX_STACK_SIZE
    \/ st.max_size.some /\ Len(st.values) >= st.max_size.val

\* push: [panic, st]
stack_push(st, v) ==
    IF StackFull(st)
    THEN [panic |-> TRUE, st |-> st]
    ELSE [panic |-> FALSE, st |-> [st EXCEPT !.values = Append(@, v)]]

\* try_push: [res, st]
stack_try_push(st, v) ==
    IF StackFull(st)
    THEN [res |-> "Overflow", st |-> st]
    ELSE [res |-> "Ok", st |-> [st EXCEPT !.values = Append(@, v)]]

\* pop: [res, val, st]
stack_pop(st) ==
    IF Len(st.values) = 0
    THEN [res |-> "Underflow", val |-> NullV, st |-> st]
    ELSE [res |-> "Ok", val |-> st.values[Len(st.values)],
          st |-> [st EXCEPT !.values = SubSeq(@, 1, Len(@) - 1)]]

\* peek: [res, val]
stack_peek(st) ==
    IF Len(st.values) = 0
    THEN [res |-> "Underflow", val |-> NullV]
    ELSE [res |-> "Ok", val |-> st.values[Len(st.values)]]

stack_clear(st) == [st EXCEPT !.values = <<>>]
stack_size(st) == Len(st.values)

(***************************************************************************)
(* call_frame.rs: CallFrame and CallStack.                                 *)
(***************************************************************************)
CallFrame_new(function_index, return_address, local_count) ==
    [function_index |-> function_index,
     return_address |-> return_address,
     stack_base |-> 0,
     locals |-> [k \in 1..local_count |-> NullV]]

\* get_local: [res, val]
get_local(frame, index) ==
    IF index >= Len(frame.locals)
    THEN [res |-> "LocalIndexOutOfBounds", val |-> NullV]
    ELSE [res |-> "Ok", val |-> frame.locals[index + 1]]

\* set_local writing every value to the first slot.
set_local_FirstSlot(frame, index, value) ==
    IF index >= Len(frame.locals)
    THEN [res |-> "LocalIndexOutOfBounds", frame |-> frame]
    ELSE [res |-> "Ok", frame |-> [frame EXCEPT !.locals[1] = value]]

\* set_local: [res, frame]
set_local(frame, index, value) ==
    IF index >= Len(frame.locals)
    THEN [res |-> "LocalIndexOutOfBounds", frame |-> frame]
    ELSE [res |-> "Ok", frame |-> [frame EXCEPT !.locals[index + 1] = value]]

set_return_address(frame, address) == [frame EXCEPT !.return_address = address]

CallStack_new == [frames |-> <<>>, max_depth |-> DEFAULT_MAX_DEPTH]
CallStack_with_max_depth(max_depth) == [frames |-> <<>>, max_depth |-> max_depth]

\* push: [res, cs]
callstack_push(cs, frame) ==
    IF Len(cs.frames) >= cs.max_depth
    THEN [res |-> "StackUnderflow", cs |-> cs]
    ELSE [res |-> "Ok", cs |-> [cs EXCEPT !.frames = Append(@, frame)]]

callstack_push_unchecked(cs, frame) == [cs EXCEPT !.frames = Append(@, frame)]

\* pop: [res, frame, cs]
callstack_pop(cs) ==
    IF Len(cs.frames) = 0
    THEN [res |-> "StackUnderflow", frame |-> CallFrame_new(0, 0, 0), cs |-> cs]
    ELSE [res |-> "Ok", frame |-> cs.frames[Len(cs.frames)],
          cs |-> [cs EXCEPT !.frames = SubSeq(@, 1, Len(@) - 1)]]

\* current / current_mut: [res, frame]
callstack_current(cs) ==
    IF Len(cs.frames) = 0
    THEN [res |-> "StackUnderflow", frame |-> CallFrame_new(0, 0, 0)]
    ELSE [res |-> "Ok", frame |-> cs.frames[Len(cs.frames)]]

callstack_clear(cs) == [cs EXCEPT !.frames = <<>>]
callstack_depth(cs) == Len(cs.frames)

(***************************************************************************)
(* heap.rs: Heap accounting.                                               *)
(***************************************************************************)
AllocationStats_default ==
    [total_allocations |-> 0, bytes_allocated |-> 0,
     string_allocations |-> 0, object_allocations |-> 0]

Heap_new ==
    [next_object_id |-> 1,
     allocated_objects |-> 0,
     total_allocated_bytes |-> 0,
     max_heap_size |-> NoneUsize,
     current_heap_size |-> 0,
     young_generation_count |-> 0,
     old_generation_count |-> 0,
     allocation_tracking |-> FALSE,
     allocation_stats |-> AllocationStats_default]

Heap_with_initial_size(max_size) ==
    [Heap_new EXCEPT !.max_heap_size = SomeUsize(max_size)]

enable_allocation_tracking(heap) == [heap EXCEPT !.allocation_tracking = TRUE]

\* The bookkeeping both allocate_string and allocate_object do once the
\* limit check has passed; kind is the allocation_stats counter to bump.
Allocated(heap, size, kind) ==
    LET counted == [heap EXCEPT !.next_object_id = @ + 1,
                                !.allocated_objects = @ + 1,
                                !.total_allocated_bytes = @ + size,
                                !.current_heap_size = @ + size,
                                !.young_generation_count = @ + 1]
    IN IF heap.allocation_tracking
       THEN [counted EXCEPT !.allocation_stats.total_allocations = @ + 1,
                            !.allocation_stats.bytes_allocated = @ + size,
                            !.allocation_stats[kind] = @ + 1]
       ELSE counted

\* allocate_object taking the object id before the limit check.
allocate_object_IdBeforeCheck(heap, size) ==
    IF heap.max_heap_size.some /\ heap.current_heap_size + size > heap.max_heap_size.val
    THEN [res |-> "OutOfMemory", id |-> 0,
          heap |-> [heap EXCEPT !.next_object_id = @ + 1]]
    ELSE [res |-> "Ok", id |-> heap.next_object_id,
          heap |-> Allocated(heap, size, "object_allocations")]

\* allocate_object on an Object whose accounted size is size: [res, id, heap]
allocate_object(heap, size) ==
    IF heap.max_heap_size.some /\ heap.current_heap_size + size > heap.max_heap_size.val
    THEN [res |-> "OutOfMemory", id |-> 0, heap |-> heap]
    ELSE [res |-> "Ok", id |-> heap.next_object_id,
          heap |-> Allocated(heap, size, "object_allocations")]

\* allocate_string: the accounted size is value.len() + size_of::<String>().
allocate_string(heap, value) ==
    LET size == Len(value) + STRING_SIZE
    IN IF heap.max_heap_size.some /\ heap.current_heap_size + size > heap.max_heap_size.val
       THEN [res |-> "OutOfMemory", id |-> 0, heap |-> heap]
       ELSE [res |-> "Ok", id |-> heap.next_object_id,
             heap |-> Allocated(heap, size, "string_allocations")]

\* The accounted size of an Object: size_of::<Object>() plus the capacity of
\* its HashMap times size_of::<(String, Value)>().  hashbrown gives an empty
\* map capacity 0 and a map of one to three entries capacity 3.
ObjectSize(fields) ==
    OBJECT_SIZE + (IF DOMAIN fields = {} THEN 0 ELSE 3) * FIELD_SLOT_SIZE

\* collect_garbage decrementing the young generation without its test.
collect_garbage_YoungUnguarded(heap, roots) ==
    IF heap.allocated_objects > 0
    THEN [count |-> 1,
          heap |-> [heap EXCEPT !.allocated_objects = @ - 1,
                                !.current_heap_size = IF @ >= 50 THEN @ - 50 ELSE 0,
                                !.young_generation_count = @ - 1]]
    ELSE [count |-> 0, heap |-> heap]

\* collect_garbage(roots): [count, heap].  The roots are not looked at.
collect_garbage(heap, roots) ==
    IF heap.allocated_objects > 0
    THEN [count |-> 1,
          heap |-> [heap EXCEPT !.allocated_objects = @ - 1,
                                !.current_heap_size = IF @ >= 50 THEN @ - 50 ELSE 0,
                                !.young_generation_count = IF @ > 0 THEN @ - 1 ELSE 0]]
    ELSE [count |-> 0, heap |-> heap]

\* collect_young_generation(roots): [count, heap]
collect_young_generation(heap, roots) ==
    LET promoted == heap.young_generation_count
    IN [count |-> promoted,
        heap |-> [heap EXCEPT !.old_generation_count = @ + promoted,
                              !.young_generation_count = 0]]

\* collect_full(roots): [count, heap]
collect_full(heap, roots) == [count |-> 0, heap |-> heap]

\* compact(roots): the heap afterwards.
compact(heap, roots) == heap

(***************************************************************************)
(* jit.rs: HotSpotProfiler, as the VM holds it (Option<HotSpotProfiler>):  *)
(* instruction_profiles maps a PC to its ProfiledInstruction.              *)
(***************************************************************************)
NoProfiles == [p \in {} |-> 0]
\* HashMap::new() of counters.
NoCounts == [k \in {} |-> 0]

\* HotSpotProfiler::new(): every table empty.
HotSpotProfiler_new ==
    [some |-> TRUE,
     instruction_profiles |-> NoProfiles,
     function_counts |-> NoCounts,
     function_threshold |-> 1000,
     loop_counts |-> NoCounts,
     loop_threshold |-> 10000,
     type_profiles |-> NoCounts,
     branch_profiles |-> NoCounts,
     total_executions |-> 0]

HotSpotProfiler_with_thresholds(function_threshold, loop_threshold) ==
    [HotSpotProfiler_new EXCEPT !.function_threshold = function_threshold,
                                !.loop_threshold = loop_threshold]

\* Option::None of the VM's profiler field.
NoProfiler == [HotSpotProfiler_new EXCEPT !.some = FALSE]

\* *map.entry(key).or_insert(0) += 1
Bump(map, key) ==
    [k \in DOMAIN map \cup {key} |->
        IF k = key THEN (IF key \in DOMAIN map THEN map[key] ELSE 0) + 1 ELSE map[k]]

\* map.get(&key).copied().unwrap_or(0)
CountOf(map, key) == IF key \in DOMAIN map THEN map[key] ELSE 0

record_function_entry(prof, function_id) ==
    [prof EXCEPT !.function_counts = Bump(@, function_id),
                 !.total_executions = @ + 1]

get_function_count(prof, function_id) == CountOf(prof.function_counts, function_id)

\* hot_functions, as the set of the ids in the returned Vec.
hot_functions(prof) ==
    { id \in DOMAIN prof.function_counts :
        prof.function_counts[id] >= prof.function_threshold }

record_loop_iteration(prof, loop_pc) ==
    [prof EXCEPT !.loop_counts = Bump(@, loop_pc),
                 !.total_executions = @ + 1]

get_loop_count(prof, loop_pc) == CountOf(prof.loop_counts, loop_pc)

\* hot_loops, as the set of the PCs in the returned Vec.
hot_loops(prof) ==
    { pc \in DOMAIN prof.loop_counts : prof.loop_counts[pc] >= prof.loop_threshold }

\* Value::type_name
type_name(v) ==
    CASE v.tag = "Integer" -> "integer"
      [] v.tag = "Float" -> "float"
      [] v.tag = "Boolean" -> "boolean"
      [] v.tag = "String" -> "string"
      [] v.tag = "GcString" -> "gc_string"
      [] v.tag = "GcObject" -> "gc_object"
      [] v.tag = "Null" -> "null"

TypeProfile_new == [type_counts |-> NoCounts, total_observations |-> 0]

record_observation(profile, name) ==
    [type_counts |-> Bump(profile.type_counts, name),
     total_observations |-> profile.total_observations + 1]

get_type_frequency(profile, name) == CountOf(profile.type_counts, name)

\* map.entry(key).or_default(), then the update f of the entry.
UpdateEntry(map, key, default, f(_)) ==
    [k \in DOMAIN map \cup {key} |->
        IF k = key THEN f(IF key \in DOMAIN map THEN map[key] ELSE default) ELSE map[k]]

record_type_observation(prof, pc, value) ==
    [prof EXCEPT !.type_profiles =
        UpdateEntry(@, pc, TypeProfile_new,
                    LAMBDA profile : record_observation(profile, type_name(value)))]

BranchProfile_new == [taken_count |-> 0, not_taken_count |-> 0]

record_branch(profile, taken) ==
    IF taken THEN [profile EXCEPT !.taken_count = @ + 1]
    ELSE [profile EXCEPT !.not_taken_count = @ + 1]

record_branch_taken(prof, pc, taken) ==
    [prof EXCEPT !.branch_profiles =
        UpdateEntry(@, pc, BranchProfile_new,
                    LAMBDA profile : record_branch(profile, taken))]

\* get_hot_instructions: the profiled instructions executed at least
\* threshold times (a Vec in HashMap order; the model keeps the set).
get_hot_instructions(prof, threshold) ==
    { prof.instruction_profiles[p] :
        p \in { q \in DOMAIN prof.instruction_profiles :
                  prof.instruction_profiles[q].execution_count >= threshold } }

ProfiledInstruction_new(pc, opcode) ==
    [pc |-> pc, opcode |-> opcode, execution_count |-> 0]

\* record_instruction_execution counting only the executions after the one
\* that inserts the entry.
record_instruction_execution_FirstUncounted(profiles, pc, opcode) ==
    LET entry == IF pc \in DOMAIN profiles
                 THEN [profiles[pc] EXCEPT !.execution_count = @ + 1]
                 ELSE ProfiledInstruction_new(pc, opcode)
    IN [p \in DOMAIN profiles \cup {pc} |-> IF p = pc THEN entry ELSE profiles[p]]

\* record_instruction_execution on the instruction_profiles table.
record_instruction_execution(profiles, pc, opcode) ==
    LET entry == IF pc \in DOMAIN profiles THEN profiles[pc]
                 ELSE ProfiledInstruction_new(pc, opcode)
        counted == [entry EXCEPT !.execution_count = @ + 1]
    IN [p \in DOMAIN profiles \cup {pc} |-> IF p = pc THEN counted ELSE profiles[p]]

\* The sum of execution_count over the table.
RECURSIVE ProfileSum(_)
ProfileSum(profiles) ==
    IF DOMAIN profiles = {} THEN 0
    ELSE LET p == CHOOSE q \in DOMAIN profiles : TRUE
         IN profiles[p].execution_count
              + ProfileSum([q \in DOMAIN profiles \ {p} |-> profiles[q]])

\* HotSpotProfiler::reset: every table cleared, total_executions zeroed.
profiler_reset(prof) ==
    [HotSpotProfiler_new EXCEPT !.some = prof.some,
                                !.function_threshold = prof.function_threshold,
                                !.loop_threshold = prof.loop_threshold]

(***************************************************************************)
(* jit.rs: export_profile_data / import_profile_data.  The exported text   *)
(* is the JSON of ProfileData; the model keeps the JSON document rather    *)
(* than its characters: whether the text parses as JSON at all, and for    *)
(* each of the four top-level keys whether it is present, whether its      *)
(* value has the type ProfileData declares, and the object it holds, whose *)
(* keys are strings.                                                       *)
(***************************************************************************)
\* usize::to_string for the keys the model uses: DecimalStrings[n + 1] is n.
DecimalStrings == <<"0", "1", "2", "3">>
usize_to_string(n) == DecimalStrings[n + 1]

\* str::parse::<usize>: [ok, val]
parse_usize(str) ==
    IF \E n \in 1..Len(DecimalStrings) : DecimalStrings[n] = str
    THEN [ok |-> TRUE, val |-> (CHOOSE n \in 1..Len(DecimalStrings) : DecimalStrings[n] = str) - 1]
    ELSE [ok |-> FALSE, val |-> 0]

\* A map keyed by usize written with its keys as decimal strings.
StringKeyed(map) ==
    [str \in { usize_to_string(k) : k \in DOMAIN map } |-> map[parse_usize(str).val]]

\* The entries of a string-keyed map whose key parses, keyed by the number.
UsizeKeyed(map) ==
    [k \in { parse_usize(str).val : str \in { t \in DOMAIN map : parse_usize(t).ok } } |->
        map[usize_to_string(k)]]

JsonField(map) == [present |-> TRUE, typed |-> TRUE, map |-> map]

serialize_type_profiles(prof) ==
    StringKeyed([pc \in DOMAIN prof.type_profiles |-> prof.type_profiles[pc].type_counts])

serialize_branch_profiles(prof) ==
    StringKeyed([pc \in DOMAIN prof.branch_profiles |->
                    <<prof.branch_profiles[pc].taken_count,
                      prof.branch_profiles[pc].not_taken_count>>])

\* export_profile_data: serde_json::to_string(&ProfileData { .. })
export_profile_data(prof) ==
    [parsable |-> TRUE,
     function_counts |-> JsonField(StringKeyed(prof.function_counts)),
     loop_counts |-> JsonField(StringKeyed(prof.loop_counts)),
     type_profiles |-> JsonField(serialize_type_profiles(prof)),
     branch_profiles |-> JsonField(serialize_branch_profiles(prof))]

\* serde_json::from_str::<ProfileData>: every field is required and must
\* have its declared type; the keys of the two HashMap<usize, u64> must be
\* numbers.
ProfileDataParses(doc) ==
    /\ doc.parsable
    /\ \A present \in {doc.function_counts.present, doc.loop_counts.present,
                        doc.type_profiles.present, doc.branch_profiles.present} :
          present
    /\ \A typed \in {doc.function_counts.typed, doc.loop_counts.typed,
                      doc.type_profiles.typed, doc.branch_profiles.typed} :
          typed
    /\ \A str \in DOMAIN doc.function_counts.map \cup DOMAIN doc.loop_counts.map :
          parse_usize(str).ok

\* The sum of the counts of one type_counts table.
RECURSIVE SumCounts(_)
SumCounts(counts) ==
    IF DOMAIN counts = {} THEN 0
    ELSE LET k == CHOOSE q \in DOMAIN counts : TRUE
         IN counts[k] + SumCounts([q \in DOMAIN counts \ {k} |-> counts[q]])

\* deserialize_type_profiles leaving total_observations at TypeProfile::new()'s 0.
deserialize_type_profiles_NoTotal(data) ==
    LET kept == UsizeKeyed(data)
    IN [pc \in DOMAIN kept |-> [type_counts |-> kept[pc], total_observations |-> 0]]

\* deserialize_type_profiles: entries whose key is no number are skipped.
deserialize_type_profiles(data) ==
    LET kept == UsizeKeyed(data)
    IN [pc \in DOMAIN kept |->
           [type_counts |-> kept[pc], total_observations |-> SumCounts(kept[pc])]]

\* deserialize_branch_profiles: entries whose key is no number are skipped.
deserialize_branch_profiles(data) ==
    LET kept == UsizeKeyed(data)
    IN [pc \in DOMAIN kept |->
           [taken_count |-> kept[pc][1], not_taken_count |-> kept[pc][2]]]

\* import_profile_data: [res, prof]
import_profile_data(prof, doc) ==
    IF ~ProfileDataParses(doc) THEN [res |-> "Err", prof |-> prof]
    ELSE [res |-> "Ok",
          prof |-> [prof EXCEPT
                      !.function_counts = UsizeKeyed(doc.function_counts.map),
                      !.loop_counts = UsizeKeyed(doc.loop_counts.map),
                      !.type_profiles = deserialize_type_profiles(doc.type_profiles.map),
                      !.branch_profiles = deserialize_branch_profiles(doc.branch_profiles.map)]]

(***************************************************************************)
(* instruction.rs: InstructionDispatcher.  An execution context x is the   *)
(* record [res, stack, cs, pc, icount, heap]: the result so far ("Ok", an  *)
(* ExecutionError kind, or "Panic"), the operand stack, the call stack,    *)
(* the dispatcher's program_counter and instruction_count, and the heap.   *)
(* overflow_checks is the build's profile setting: with it an overflowing  *)
(* `+`, `-` or `*` panics, without it the result wraps.  MkCtx gives the   *)
(* dev and test profiles' setting; WithOverflowChecks gives either.        *)
(***************************************************************************)
MkCtx(stack, cs, pc, icount, heap) ==
    [res |-> "Ok", stack |-> stack, cs |-> cs, pc |-> pc, icount |-> icount,
     heap |-> heap, overflow_checks |-> TRUE]

WithOverflowChecks(x, checks) == [x EXCEPT !.overflow_checks = checks]

Fail(x, kind) == [x EXCEPT !.res = kind]

\* `i as usize` for an i64 operand.
AsUsize(i) == IF i >= 0 THEN i ELSE HUGE_USIZE

\* stack.push(v) inside an opcode: a full stack panics.
PushV(x, v) ==
    LET p == stack_push(x.stack, v)
    IN IF p.panic THEN Fail(x, "Panic") ELSE [x EXCEPT !.stack = p.st]

\* `let v = stack.pop()?`: [res, val, x]; on Underflow x carries the error.
PopV(x) ==
    LET p == stack_pop(x.stack)
    IN IF p.res = "Ok"
       THEN [res |-> "Ok", val |-> p.val, x |-> [x EXCEPT !.stack = p.st]]
       ELSE [res |-> "Err", val |-> NullV, x |-> Fail(x, "StackUnderflow")]

\* `let b = stack.pop()?; let a = stack.pop()?;`: [res, a, b, x].  When the
\* second pop fails the first value stays popped.
Pop2(x) ==
    LET pb == PopV(x)
    IN IF pb.res # "Ok"
       THEN [res |-> "Err", a |-> NullV, b |-> NullV, x |-> pb.x]
       ELSE LET pa == PopV(pb.x)
            IN IF pa.res # "Ok"
               THEN [res |-> "Err", a |-> NullV, b |-> NullV, x |-> pa.x]
               ELSE [res |-> "Ok", a |-> pa.val, b |-> pb.val, x |-> pa.x]

\* TruncDiv rounding toward minus infinity.
TruncDiv_Floor(a, b) == IF b > 0 THEN a \div b ELSE (-a) \div (-b)

\* Rust's integer `/` truncates toward zero and `%` takes the dividend's sign.
TruncDiv(a, b) ==
    LET q == Abs(a) \div Abs(b)
    IN IF (a < 0) = (b < 0) THEN q ELSE -q
TruncRem(a, b) == a - b * TruncDiv(a, b)

\* The mathematical result of an i64 operation before it is stored:
\* hi * 2^63 + i, plus a multiple of 2^126 when big.
Wide(hi, i, big) == [hi |-> hi, i |-> i, big |-> big]
WideAdd(a, b) == Wide(a.hi + b.hi, a.i + b.i, FALSE)
WideSub(a, b) == Wide(a.hi - b.hi, a.i - b.i, FALSE)
WideMul(a, b) ==
    Wide(a.hi * b.i + b.hi * a.i, a.i * b.i, a.hi # 0 /\ b.hi # 0)
\* i64::MIN <= w <= i64::MAX.
InI64(w) ==
    /\ ~w.big
    /\ \/ w.hi = 0
       \/ w.hi = -1 /\ w.i >= 0
       \/ w.hi = 1 /\ w.i < 0
\* The two's complement result: w modulo 2^64, taken in i64's range.
WrapI64(w) ==
    IF w.hi % 2 = 0 THEN IntV(w.i)
    ELSE IF w.i >= 0 THEN I64V(-1, w.i) ELSE I64V(1, w.i)
\* `a + b`, `a - b`, `a * b` on i64: an overflow is reported with the value
\* a build without overflow checks stores.
CheckedI64(w) ==
    IF InI64(w)
    THEN [res |-> "Ok", val |-> I64V(w.hi, w.i)]
    ELSE [res |-> "Overflow", val |-> WrapI64(w)]

\* |a| >= |b| for two i64 within a few units of i64::MIN or i64::MAX.
FarMagnitudeGeq(a, b) ==
    CASE a.hi = -1 /\ b.hi = -1 -> a.i <= b.i
      [] a.hi = 1 /\ b.hi = 1 -> a.i >= b.i
      [] a.hi = -1 /\ b.hi = 1 -> a.i + b.i <= 0
      [] a.hi = 1 /\ b.hi = -1 -> a.i + b.i >= 0

\* The quotients the anchored pairs can carry: both operands near zero, a
\* divisor of 1 or -1, or a divisor near i64::MIN or i64::MAX.
DivRepresentable(a, b) ==
    a.hi = 0 \/ b.hi # 0 \/ b.i \in {-1, 1}

\* `a / b` on i64 with b # 0: i64::MIN / -1 panics in every build.
DivI64(a, b) ==
    CASE a.hi = 0 /\ b.hi = 0 ->
           [res |-> "Ok", val |-> IntV(TruncDiv(a.i, b.i))]
      [] a.hi # 0 /\ b = IntV(1) -> [res |-> "Ok", val |-> a]
      [] a.hi # 0 /\ b = IntV(-1) ->
           IF InI64(Wide(-a.hi, -a.i, FALSE))
           THEN [res |-> "Ok", val |-> I64V(-a.hi, -a.i)]
           ELSE [res |-> "Panic", val |-> NullV]
      [] a.hi = 0 /\ b.hi # 0 -> [res |-> "Ok", val |-> IntV(0)]
      [] a.hi # 0 /\ b.hi # 0 ->
           [res |-> "Ok",
            val |-> IntV(IF FarMagnitudeGeq(a, b) THEN a.hi * b.hi ELSE 0)]

\* `a % b` on i64 with b # 0: a - b * (a / b), and i64::MIN % -1 panics in
\* every build.
RemI64(a, b) ==
    IF a.hi = 0 /\ b.hi = 0
    THEN [res |-> "Ok", val |-> IntV(TruncRem(a.i, b.i))]
    ELSE LET q == DivI64(a, b)
         IN IF q.res # "Ok" THEN q
            ELSE LET w == WideSub(a, WrapI64(WideMul(b, q.val)))
                 IN [res |-> "Ok", val |-> I64V(w.hi, w.i)]

\* The match of execute_mod testing the divisor before the operand types.
ModValue_ZeroFirst(a, b) ==
    IF IsNumeric(b) /\ b.i = 0
    THEN [res |-> "DivisionByZero", val |-> NullV]
    ELSE IF a.tag = "Integer" /\ b.tag = "Integer"
         THEN [res |-> "Ok", val |-> IntV(TruncRem(a.i, b.i))]
         ELSE [res |-> "TypeError", val |-> NullV]

\* The match of execute_mod: only an Integer pair is accepted.
ModValue(a, b) ==
    IF a.tag = "Integer" /\ b.tag = "Integer"
    THEN IF IsZero(b)
         THEN [res |-> "DivisionByZero", val |-> NullV]
         ELSE RemI64(a, b)
    ELSE [res |-> "TypeError", val |-> NullV]

\* The `match (a, b)` of execute_add .. execute_mod: [res, val].  res is
\* "Overflow" for an Integer `+`, `-` or `*` out of i64's range.
ArithValue(op, a, b) ==
    LET ok(v) == [res |-> "Ok", val |-> v]
        err(k) == [res |-> k, val |-> NullV]
        bothInt == a.tag = "Integer" /\ b.tag = "Integer"
        numeric == IsNumeric(a) /\ IsNumeric(b)
    IN CASE op = "Add" ->
              IF bothInt THEN CheckedI64(WideAdd(a, b))
              ELSE IF numeric
                   THEN ok(FloatV(Num(a) * Den(b) + Num(b) * Den(a), Den(a) * Den(b)))
                   ELSE err("TypeError")
         [] op = "Sub" ->
              IF bothInt THEN CheckedI64(WideSub(a, b))
              ELSE IF numeric
                   THEN ok(FloatV(Num(a) * Den(b) - Num(b) * Den(a), Den(a) * Den(b)))
                   ELSE err("TypeError")
         [] op = "Mul" ->
              IF bothInt THEN CheckedI64(WideMul(a, b))
              ELSE IF numeric
                   THEN ok(FloatV(Num(a) * Num(b), Den(a) * Den(b)))
                   ELSE err("TypeError")
         [] op = "Div" ->
              IF bothInt
              THEN IF IsZero(b) THEN err("DivisionByZero")
                   ELSE DivI64(a, b)
              ELSE IF numeric
                   THEN IF Num(b) = 0 THEN err("DivisionByZero")
                        \* a / b, rounded to the nearest binary64
                        ELSE ok(FloatV(Num(a) * Den(b), Den(a) * Num(b)))
                   ELSE err("TypeError")
         [] op = "Mod" -> ModValue(a, b)

\* execute_arith giving the operands back when the match fails.
execute_arith_RestoringOperands(x, op) ==
    LET p == Pop2(x)
    IN IF p.res # "Ok" THEN p.x
       ELSE LET r == ArithValue(op, p.a, p.b)
            IN CASE r.res = "Ok" -> PushV(p.x, r.val)
                 [] r.res = "Overflow" ->
                      IF x.overflow_checks THEN Fail(p.x, "Panic")
                      ELSE PushV(p.x, r.val)
                 [] OTHER -> Fail(x, r.res)

\* execute_add, execute_sub, execute_mul, execute_div, execute_mod.
execute_arith(x, op) ==
    LET p == Pop2(x)
    IN IF p.res # "Ok" THEN p.x
       ELSE LET r == ArithValue(op, p.a, p.b)
            IN CASE r.res = "Ok" -> PushV(p.x, r.val)
                 [] r.res = "Overflow" ->
                      IF x.overflow_checks THEN Fail(p.x, "Panic")
                      ELSE PushV(p.x, r.val)
                 [] OTHER -> Fail(p.x, r.res)

\* execute_push accepting Integer operands only.
execute_push_IntegerOnly(x, instr) ==
    CASE instr.operand.tag = "None" -> Fail(x, "InsufficientOperands")
      [] instr.operand.tag = "Integer" -> PushV(x, instr.operand)
      [] OTHER -> Fail(x, "InvalidOperand")

execute_push(x, instr) ==
    IF instr.operand.tag # "None"
    THEN PushV(x, instr.operand)
    ELSE Fail(x, "InsufficientOperands")

\* execute_push_with_constants taking every Integer operand as a literal.
execute_push_with_constants_LiteralOnly(x, instr, constants) ==
    CASE instr.operand.tag = "None" -> Fail(x, "InsufficientOperands")
      [] OTHER -> PushV(x, instr.operand)

execute_push_with_constants(x, instr, constants) ==
    CASE instr.operand.tag = "Integer" ->
           IF Len(constants) = 0
           THEN PushV(x, IntV(instr.operand.i))
           ELSE LET const_index == AsUsize(instr.operand.i)
                IN IF const_index >= Len(constants)
                   THEN Fail(x, "InvalidOperand")
                   ELSE PushV(x, constants[const_index + 1])
      [] instr.operand.tag = "None" -> Fail(x, "InsufficientOperands")
      [] OTHER -> PushV(x, instr.operand)

execute_pop(x) == PopV(x).x

\* execute_dup pushing two copies of the top value.
execute_dup_Twice(x) ==
    LET p == stack_peek(x.stack)
    IN IF p.res # "Ok" THEN Fail(x, "StackUnderflow")
       ELSE PushV(PushV(x, p.val), p.val)

execute_dup(x) ==
    LET p == stack_peek(x.stack)
    IN IF p.res # "Ok" THEN Fail(x, "StackUnderflow") ELSE PushV(x, p.val)

execute_swap(x) ==
    LET pa == PopV(x)
    IN IF pa.res # "Ok" THEN pa.x
       ELSE LET pb == PopV(pa.x)
            IN IF pb.res # "Ok" THEN pb.x
               ELSE LET x1 == PushV(pb.x, pa.val)
                    IN IF x1.res # "Ok" THEN x1 ELSE PushV(x1, pb.val)

\* execute_jump casting the address without the sign test.
execute_jump_Unchecked(x, instr) ==
    IF instr.operand.tag = "Integer"
    THEN [x EXCEPT !.pc = AsUsize(instr.operand.i)]
    ELSE Fail(x, "InsufficientOperands")

execute_jump(x, instr) ==
    IF instr.operand.tag = "Integer"
    THEN IF instr.operand.i < 0
         THEN Fail(x, "InvalidJumpAddress")
         ELSE [x EXCEPT !.pc = AsUsize(instr.operand.i)]
    ELSE Fail(x, "InsufficientOperands")

execute_jump_if_true(x, instr) ==
    LET p == PopV(x)
    IN IF p.res # "Ok" THEN p.x
       ELSE IF is_truthy(p.val) THEN execute_jump(p.x, instr) ELSE p.x

execute_jump_if_false(x, instr) ==
    LET p == PopV(x)
    IN IF p.res # "Ok" THEN p.x
       ELSE IF ~is_truthy(p.val) THEN execute_jump(p.x, instr) ELSE p.x

\* execute_call recording the call site itself as the return address.
execute_call_ReturnsToCallSite(x, instr) ==
    IF instr.operand.tag = "Integer"
    THEN IF instr.operand.i < 0
         THEN Fail(x, "InvalidJumpAddress")
         ELSE LET frame == CallFrame_new(AsUsize(instr.operand.i), x.pc, 0)
              IN [x EXCEPT !.cs = callstack_push_unchecked(@, frame),
                           !.pc = AsUsize(instr.operand.i)]
    ELSE Fail(x, "InsufficientOperands")

\* execute_call giving the new frame one local slot.
execute_call_OneLocal(x, instr) ==
    IF instr.operand.tag = "Integer"
    THEN IF instr.operand.i < 0
         THEN Fail(x, "InvalidJumpAddress")
         ELSE LET return_addr == x.pc + 1
                  frame == CallFrame_new(AsUsize(instr.operand.i), return_addr, 1)
              IN [x EXCEPT !.cs = callstack_push_unchecked(@, frame),
                           !.pc = AsUsize(instr.operand.i)]
    ELSE Fail(x, "InsufficientOperands")

execute_call(x, instr) ==
    IF instr.operand.tag = "Integer"
    THEN IF instr.operand.i < 0
         THEN Fail(x, "InvalidJumpAddress")
         ELSE LET return_addr == x.pc + 1
                  frame == CallFrame_new(AsUsize(instr.operand.i), return_addr, 0)
              IN [x EXCEPT !.cs = callstack_push_unchecked(@, frame),
                           !.pc = AsUsize(instr.operand.i)]
    ELSE Fail(x, "InsufficientOperands")

execute_return(x) ==
    LET p == callstack_pop(x.cs)
    IN IF p.res # "Ok" THEN Fail(x, "CallFrameError")
       ELSE [x EXCEPT !.cs = p.cs, !.pc = p.frame.return_address]

\* execute_equal widening a mixed Integer/Float pair before comparing.
execute_equal_Widening(x) ==
    LET p == Pop2(x)
    IN IF p.res # "Ok" THEN p.x
       ELSE IF IsNumeric(p.a) /\ IsNumeric(p.b)
            THEN PushV(p.x, BoolV(Num(p.a) * Den(p.b) = Num(p.b) * Den(p.a)))
            ELSE PushV(p.x, BoolV(p.a = p.b))

execute_equal(x) ==
    LET p == Pop2(x)
    IN IF p.res # "Ok" THEN p.x ELSE PushV(p.x, BoolV(p.a = p.b))

execute_not_equal(x) ==
    LET p == Pop2(x)
    IN IF p.res # "Ok" THEN p.x ELSE PushV(p.x, BoolV(p.a # p.b))

\* The `match (a, b)` of execute_less_than .. execute_greater_equal, both
\* operands numeric: the comparison after widening.
CompareValue(op, a, b) ==
    LET l == Num(a) * Den(b)
        r == Num(b) * Den(a)
    IN CASE op = "LessThan" -> l < r
         [] op = "LessEqual" -> l <= r
         [] op = "GreaterThan" -> l > r
         [] op = "GreaterEqual" -> l >= r

execute_compare(x, op) ==
    LET p == Pop2(x)
    IN IF p.res # "Ok" THEN p.x
       ELSE IF IsNumeric(p.a) /\ IsNumeric(p.b)
            THEN PushV(p.x, BoolV(CompareValue(op, p.a, p.b)))
            ELSE Fail(p.x, "TypeError")

execute_and(x) ==
    LET p == Pop2(x)
    IN IF p.res # "Ok" THEN p.x
       ELSE PushV(p.x, BoolV(is_truthy(p.a) /\ is_truthy(p.b)))

execute_or(x) ==
    LET p == Pop2(x)
    IN IF p.res # "Ok" THEN p.x
       ELSE PushV(p.x, BoolV(is_truthy(p.a) \/ is_truthy(p.b)))

execute_not(x) ==
    LET p == PopV(x)
    IN IF p.res # "Ok" THEN p.x ELSE PushV(p.x, BoolV(~is_truthy(p.val)))

execute_xor(x) ==
    LET p == Pop2(x)
    IN IF p.res # "Ok" THEN p.x
       ELSE PushV(p.x, BoolV(is_truthy(p.a) # is_truthy(p.b)))

execute_load(x, instr) ==
    IF instr.operand.tag # "Integer" THEN Fail(x, "InvalidOperand")
    ELSE LET local_index == AsUsize(instr.operand.i)
             cur == callstack_current(x.cs)
         IN IF cur.res # "Ok" THEN Fail(x, "CallFrameError")
            ELSE LET g == get_local(cur.frame, local_index)
                 IN IF g.res # "Ok" THEN Fail(x, "CallFrameError")
                    ELSE PushV(x, g.val)

execute_store(x, instr) ==
    IF instr.operand.tag # "Integer" THEN Fail(x, "InvalidOperand")
    ELSE LET local_index == AsUsize(instr.operand.i)
             p == PopV(x)
         IN IF p.res # "Ok" THEN p.x
            ELSE LET cur == callstack_current(p.x.cs)
                 IN IF cur.res # "Ok" THEN Fail(p.x, "CallFrameError")
                    ELSE LET s == set_local(cur.frame, local_index, p.val)
                         IN IF s.res # "Ok" THEN Fail(p.x, "CallFrameError")
                            ELSE [p.x EXCEPT !.cs.frames[Len(p.x.cs.frames)] = s.frame]

execute_new_object(x) ==
    LET a == allocate_object(x.heap, ObjectSize(NoFields))
    IN IF a.res # "Ok" THEN Fail(x, "InvalidOperand")
       ELSE PushV([x EXCEPT !.heap = a.heap], GcObjectV(a.id))

\* Every object the dispatcher can meet was allocated by NewObject and has no
\* fields (SetField never assigns), so get_field finds nothing.
\* The field name an operand denotes: a String names the field, an Integer
\* index the field format!("field_{}", index).
FieldName(operand) ==
    IF operand.tag = "String" THEN operand.s
    ELSE CASE operand.i = 0 -> "field_0"
           [] operand.i = 1 -> "field_1"
           [] operand.i = -1 -> "field_-1"
           [] OTHER -> "field_n"

\* execute_get_field never finding the field.
execute_get_field_AlwaysNull(x, instr) ==
    IF instr.operand.tag \notin {"String", "Integer"} THEN Fail(x, "InvalidOperand")
    ELSE LET p == PopV(x)
         IN IF p.res # "Ok" THEN p.x
            ELSE IF p.val.tag = "GcObject" THEN PushV(p.x, NullV)
                 ELSE Fail(p.x, "TypeError")

execute_get_field(x, instr) ==
    IF instr.operand.tag \notin {"String", "Integer"} THEN Fail(x, "InvalidOperand")
    ELSE LET p == PopV(x)
         IN IF p.res # "Ok" THEN p.x
            ELSE IF p.val.tag = "GcObject"
                 THEN LET field_name == FieldName(instr.operand)
                      IN IF field_name \in DOMAIN p.val.f
                         THEN PushV(p.x, p.val.f[field_name])
                         ELSE PushV(p.x, NullV)
                 ELSE Fail(p.x, "TypeError")

execute_set_field(x, instr) ==
    IF instr.operand.tag \notin {"String", "Integer"} THEN Fail(x, "InvalidOperand")
    ELSE LET p == PopV(x)
         IN IF p.res # "Ok" THEN p.x
            ELSE LET q == PopV(p.x)
                 IN IF q.res # "Ok" THEN q.x
                    ELSE LET x1 == PushV(q.x, q.val)
                             x2 == IF x1.res # "Ok" THEN x1 ELSE PushV(x1, p.val)
                         IN IF x2.res # "Ok" THEN x2
                            ELSE IF q.val.tag = "GcObject"
                                 THEN Fail(x2, "InvalidOperand")
                                 ELSE Fail(x2, "TypeError")

ArithOps == {"Add", "Sub", "Mul", "Div", "Mod"}
CompareOps == {"LessThan", "LessEqual", "GreaterThan", "GreaterEqual"}
ControlFlowOps == {"Jump", "JumpIfTrue", "JumpIfFalse", "Call", "Return"}

execute_with_constants(x0, instr, constants) ==
    LET x == [x0 EXCEPT !.icount = @ + 1]
        op == instr.opcode
    IN CASE op \in ArithOps -> execute_arith(x, op)
         [] op = "Push" -> execute_push_with_constants(x, instr, constants)
         [] op = "Pop" -> execute_pop(x)
         [] op = "Dup" -> execute_dup(x)
         [] op = "Swap" -> execute_swap(x)
         [] op = "Jump" -> execute_jump(x, instr)
         [] op = "JumpIfTrue" -> execute_jump_if_true(x, instr)
         [] op = "JumpIfFalse" -> execute_jump_if_false(x, instr)
         [] op = "Call" -> execute_call(x, instr)
         [] op = "Return" -> execute_return(x)
         [] op = "Equal" -> execute_equal(x)
         [] op = "NotEqual" -> execute_not_equal(x)
         [] op \in CompareOps -> execute_compare(x, op)
         [] op = "And" -> execute_and(x)
         [] op = "Or" -> execute_or(x)
         [] op = "Not" -> execute_not(x)
         [] op = "Xor" -> execute_xor(x)
         [] op = "Load" -> execute_load(x, instr)
         [] op = "Store" -> execute_store(x, instr)
         [] op = "NewObject" -> execute_new_object(x)
         [] op = "GetField" -> execute_get_field(x, instr)
         [] op = "SetField" -> execute_set_field(x, instr)
         [] op = "Halt" -> x

\* execute: the entry point without constants pool and heap.
execute(x0, instr) ==
    LET x == [x0 EXCEPT !.icount = @ + 1]
        op == instr.opcode
    IN CASE op \in ArithOps -> execute_arith(x, op)
         [] op = "Push" -> execute_push(x, instr)
         [] op = "Pop" -> execute_pop(x)
         [] op = "Dup" -> execute_dup(x)
         [] op = "Swap" -> execute_swap(x)
         [] op = "Jump" -> execute_jump(x, instr)
         [] op = "JumpIfTrue" -> execute_jump_if_true(x, instr)
         [] op = "JumpIfFalse" -> execute_jump_if_false(x, instr)
         [] op = "Call" -> execute_call(x, instr)
         [] op = "Return" -> execute_return(x)
         [] op = "Equal" -> execute_equal(x)
         [] op = "NotEqual" -> execute_not_equal(x)
         [] op \in CompareOps -> execute_compare(x, op)
         [] op = "And" -> execute_and(x)
         [] op = "Or" -> execute_or(x)
         [] op = "Not" -> execute_not(x)
         [] op = "Xor" -> execute_xor(x)
         [] op = "Load" -> execute_load(x, instr)
         [] op = "Store" -> execute_store(x, instr)
         [] op = "NewObject" -> Fail(x, "InvalidOperand")
         [] op = "GetField" -> execute_get_field(x, instr)
         [] op = "SetField" -> execute_set_field(x, instr)
         [] op = "Halt" -> x

(***************************************************************************)
(* runtime.rs: VirtualMachine.                                             *)
(***************************************************************************)
VARIABLES
    program,           \* Vec<Instruction>
    constants,         \* Vec<Value>
    operand_stack,     \* OperandStack
    call_stack,        \* CallStack
    dispatcher,        \* InstructionDispatcher: program_counter, instruction_count
    heap,              \* Heap
    halted,            \* bool
    max_instructions,  \* u64
    profiler,          \* Option<HotSpotProfiler>
    last_call,         \* the API call made last
    last_result,       \* what it returned: "Ok", an error kind, or "Panic"
    last_instr,        \* the argument of the last call: the instruction handed to
                       \* execute, the program (and pool) handed to a load
    returned           \* the Value it returned (pop, peek), else Null

vars == <<program, constants, operand_stack, call_stack, dispatcher, heap,
          halted, max_instructions, profiler, last_call, last_result, last_instr,
          returned>>

InstructionDispatcher_new == [program_counter |-> 0, instruction_count |-> 0]

\* No instruction was handed to execute by the last call.
NoInstr == Instr("None", NoOperand)

\* The VirtualMachine as one record, for step and run as functions of it.
MkVm(prog, consts, stack, cs, disp, hp, prof, h, maxi) ==
    [program |-> prog, constants |-> consts, operand_stack |-> stack,
     call_stack |-> cs, dispatcher |-> disp, heap |-> hp, profiler |-> prof,
     halted |-> h, max_instructions |-> maxi]

VirtualMachine_with_max_instructions(maxi) ==
    MkVm(<<>>, <<>>, OperandStack_new, CallStack_new, InstructionDispatcher_new,
         Heap_new, NoProfiler, FALSE, maxi)

\* trigger_gc: collect_garbage::<String>(&[]), no root given.  [count, vm]
vm_trigger_gc(vm) ==
    LET g == collect_garbage(vm.heap, {})
    IN [count |-> g.count, vm |-> [vm EXCEPT !.heap = g.heap]]

\* vm_reset leaving the call stack as it is.
vm_reset_KeepingCallStack(vm) ==
    [vm EXCEPT !.operand_stack = stack_clear(@),
               !.dispatcher = InstructionDispatcher_new,
               !.halted = FALSE]

vm_reset(vm) ==
    [vm EXCEPT !.operand_stack = stack_clear(@),
               !.call_stack = callstack_clear(@),
               !.dispatcher = InstructionDispatcher_new,
               !.halted = FALSE]

\* load_program emptying the constants pool as well.
vm_load_program_ClearingConstants(vm, prog) ==
    vm_reset([vm EXCEPT !.program = prog, !.constants = <<>>])

vm_load_program(vm, prog) == vm_reset([vm EXCEPT !.program = prog])

\* vm_load_bytecode_module resetting the VM before it rejects an empty list.
vm_load_bytecode_module_ResettingFirst(vm, instructions, consts) ==
    IF Len(instructions) = 0
    THEN [res |-> "InvalidProgramState", vm |-> vm_reset(vm)]
    ELSE [res |-> "Ok",
          vm |-> vm_reset([vm EXCEPT !.program = instructions, !.constants = consts])]

\* load_bytecode_module: [res, vm]
vm_load_bytecode_module(vm, instructions, consts) ==
    IF Len(instructions) = 0
    THEN [res |-> "InvalidProgramState", vm |-> vm]
    ELSE [res |-> "Ok",
          vm |-> vm_reset([vm EXCEPT !.program = instructions, !.constants = consts])]

\* enable_profiling starting the profiled run from a reset VM.
vm_enable_profiling_Resetting(vm) ==
    [vm_reset(vm) EXCEPT !.profiler = HotSpotProfiler_new]

vm_enable_profiling(vm) == [vm EXCEPT !.profiler = HotSpotProfiler_new]
vm_disable_profiling(vm) == [vm EXCEPT !.profiler = NoProfiler]
vm_reset_profiler(vm) ==
    IF vm.profiler.some THEN [vm EXCEPT !.profiler = profiler_reset(@)] ELSE vm

\* step's profiling of the instruction it is about to dispatch.
StepProfile(vm, pc, instruction) ==
    IF vm.profiler.some
    THEN [vm EXCEPT !.profiler.instruction_profiles =
                        record_instruction_execution(@, pc, instruction.opcode)]
    ELSE vm

\* The VM after a dispatch that left the context x.
AfterDispatch(vm, x) ==
    [vm EXCEPT !.operand_stack = x.stack,
               !.call_stack = x.cs,
               !.dispatcher = [program_counter |-> x.pc, instruction_count |-> x.icount],
               !.heap = x.heap]

\* The end of step moving the PC past an instruction whose dispatch failed.
StepAfterDispatch_AdvancingOnError(vm, pc, instruction, x) ==
    IF instruction.opcode \in ControlFlowOps
    THEN [res |-> x.res, vm |-> AfterDispatch(vm, x)]
    ELSE [res |-> x.res,
          vm |-> [AfterDispatch(vm, x) EXCEPT !.dispatcher.program_counter = pc + 1]]

\* The end of step, after the dispatch of `instruction` at pc left x.
StepAfterDispatch(vm, pc, instruction, x) ==
    IF x.res # "Ok" THEN [res |-> x.res, vm |-> AfterDispatch(vm, x)]
    ELSE IF instruction.opcode \in ControlFlowOps
         THEN [res |-> "Ok", vm |-> AfterDispatch(vm, x)]
         ELSE [res |-> "Ok",
               vm |-> [AfterDispatch(vm, x) EXCEPT !.dispatcher.program_counter = pc + 1]]

\* StepHalt moving the PC past the Halt.
StepHalt_Advancing(vm) ==
    [res |-> "Ok",
     vm |-> [vm EXCEPT !.halted = TRUE,
                       !.dispatcher.program_counter = @ + 1]]

\* StepHalt sending the PC back to the start of the program.
StepHalt_Rewinding(vm) ==
    [res |-> "Ok",
     vm |-> [vm EXCEPT !.halted = TRUE, !.dispatcher.program_counter = 0]]

\* StepHalt counting the Halt as an executed instruction.
StepHalt_Counting(vm) ==
    [res |-> "Ok",
     vm |-> [vm EXCEPT !.halted = TRUE,
                       !.dispatcher.instruction_count = @ + 1]]

\* StepHalt recording the Halt in the profiler.
StepHalt_Profiling(vm) ==
    [res |-> "Ok",
     vm |-> [StepProfile(vm, vm.dispatcher.program_counter, Op0("Halt"))
                EXCEPT !.halted = TRUE]]

\* step's Halt branch: the flag is set and nothing is dispatched.
StepHalt(vm) == [res |-> "Ok", vm |-> [vm EXCEPT !.halted = TRUE]]

\* step: [res, vm]
vm_step(vm) ==
    IF vm.halted THEN [res |-> "Ok", vm |-> vm]
    ELSE IF Len(vm.program) = 0 THEN [res |-> "NoProgram", vm |-> vm]
    ELSE LET pc == vm.dispatcher.program_counter
         IN IF pc >= Len(vm.program)
            THEN [res |-> "ProgramCounterOutOfBounds", vm |-> vm]
            ELSE LET instruction == vm.program[pc + 1]
                 IN IF instruction.opcode = "Halt"
                    THEN StepHalt(vm)
                    ELSE Bind(execute_with_constants(
                                  MkCtx(vm.operand_stack, vm.call_stack, pc,
                                        vm.dispatcher.instruction_count, vm.heap),
                                  instruction, vm.constants),
                              LAMBDA x : StepAfterDispatch(StepProfile(vm, pc, instruction),
                                                           pc, instruction, x))

\* RunContinues letting the loop run while the count equals the quota.
RunContinues_Inclusive(vm) ==
    ~vm.halted /\ vm.dispatcher.instruction_count <= vm.max_instructions

\* The guard of run's while loop.
RunContinues(vm) ==
    ~vm.halted /\ vm.dispatcher.instruction_count < vm.max_instructions

\* run's while loop and the quota test after it: [res, vm]
RECURSIVE RunLoop(_)
RunLoop(vm) ==
    IF RunContinues(vm)
    THEN Bind(vm_step(vm), LAMBDA s : IF s.res # "Ok" THEN s ELSE RunLoop(s.vm))
    ELSE IF vm.dispatcher.instruction_count >= vm.max_instructions
         THEN [res |-> "InvalidProgramState", vm |-> vm]
         ELSE [res |-> "Ok", vm |-> vm]

\* run: [res, vm]
vm_run(vm) ==
    IF Len(vm.program) = 0 THEN [res |-> "NoProgram", vm |-> vm] ELSE RunLoop(vm)

(***************************************************************************)
(* The inputs the model draws.                                             *)
(***************************************************************************)
\* The end-to-end programs of the test suite, and programs that reach each
\* way execution can stop.
ScenarioPrograms ==
    { <<OpI("Push", 5), OpI("Push", 3), Op0("Add"), OpI("Push", 2), Op0("Mul"), Op0("Halt")>>,
      <<OpI("Push", 3), OpI("Push", 5), Op0("LessThan"), OpI("JumpIfTrue", 6),
        OpI("Push", 100), Op0("Halt"), OpI("Push", 200), Op0("Halt")>>,
      <<OpI("Call", 2), Op0("Halt"), OpI("Push", 42), Op0("Return")>>,
      <<OpI("Call", 2), Op0("Halt"), OpI("Call", 4), Op0("Return"), OpI("Push", 1), Op0("Return")>>,
      <<OpI("Push", 0), OpI("Push", 1), Op0("Add"), OpI("Push", 2), Op0("Div"), Op0("Halt")>>,
      <<OpI("Jump", 0)>>,
      <<OpI("Jump", 9), Op0("Halt")>>,
      <<OpI("Jump", -1), Op0("Halt")>>,
      <<OpI("Call", 0)>>,
      <<OpI("Call", 7), Op0("Halt")>>,
      <<OpI("Push", 5), Op0("Add"), Op0("Halt")>>,
      <<OpI("Push", 1), OpI("Push", 0), Op0("Div"), Op0("Halt")>>,
      <<Instr("Push", BoolV(FALSE)), OpI("JumpIfTrue", 3), OpI("Push", 7), Op0("Halt")>>,
      <<Instr("Push", BoolV(TRUE)), OpI("JumpIfFalse", 3), OpI("Push", 7), Op0("Halt")>>,
      <<Instr("Push", BoolV(FALSE)), OpI("JumpIfFalse", 3), OpI("Push", 7), Op0("Halt")>>,
      <<Instr("Push", BoolV(TRUE)), OpI("JumpIfTrue", 9), Op0("Halt")>>,
      <<Op0("NewObject"), Op0("NewObject"), Op0("Equal"), Op0("Halt")>>,
      <<Instr("Push", StrV("a")), Op0("Dup"), Op0("Mul"), Op0("Halt")>>,
      <<Op0("Push"), Op0("Halt")>>,
      <<OpI("Push", -1), Op0("Halt")>> }

InstrAlphabet == { OpI("Push", 1), OpI("Call", 1), Op0("Return"), Op0("Halt") }

SeqsOfLen(S, n) == [1..n -> S]

GeneratedPrograms == UNION { SeqsOfLen(InstrAlphabet, n) : n \in 0..MaxGenLen }

Programs == ScenarioPrograms \cup GeneratedPrograms

ConstantPools == { <<>>, <<IntV(15), IntV(25), IntV(2)>> }

\* max_instructions = 5 is the quota of the test suite's quota scenario.
Quotas == {0, 1, 5, MaxQuota}

(***************************************************************************)
(* The machine: one action per public operation of VirtualMachine.         *)
(***************************************************************************)
VmState ==
    MkVm(program, constants, operand_stack, call_stack, dispatcher, heap, profiler,
         halted, max_instructions)

\* The variables take the fields of vm; max_instructions never changes.
SetVm(vm) ==
    /\ program' = vm.program
    /\ constants' = vm.constants
    /\ operand_stack' = vm.operand_stack
    /\ call_stack' = vm.call_stack
    /\ dispatcher' = vm.dispatcher
    /\ heap' = vm.heap
    /\ profiler' = vm.profiler
    /\ halted' = vm.halted
    /\ max_instructions' = vm.max_instructions

\* A panic unwinds out of the VM: no call is made on it afterwards.
Alive == last_result # "Panic"

\* The heap's counters outlive reset and load, and step counts without a
\* quota: the model stops allocating after MaxObjects objects and stepping
\* after MaxCount instructions.
WithinBounds(vm) ==
    /\ vm.heap.next_object_id <= MaxObjects + 1
    /\ vm.dispatcher.instruction_count <= MaxCount
    /\ ProfileSum(vm.profiler.instruction_profiles) <= MaxProfiled

Init ==
    \E maxi \in Quotas :
        LET vm == VirtualMachine_with_max_instructions(maxi)
        IN /\ program = vm.program
           /\ constants = vm.constants
           /\ operand_stack = vm.operand_stack
           /\ call_stack = vm.call_stack
           /\ dispatcher = vm.dispatcher
           /\ heap = vm.heap
           /\ profiler = vm.profiler
           /\ halted = vm.halted
           /\ max_instructions = vm.max_instructions
           /\ last_call = "new"
           /\ last_result = "Ok"
           /\ last_instr = NoInstr
           /\ returned = NullV

\* The arguments of load_program(program) and of
\* load_bytecode_module(instructions, constants), as last_instr keeps them.
ProgramArg(prog) ==
    [opcode |-> "None", operand |-> NoOperand, instructions |-> prog]
ModuleArgs(instructions, consts) ==
    [opcode |-> "None", operand |-> NoOperand, instructions |-> instructions,
     constants |-> consts]

\* The modules handed to load_bytecode_module: every non-empty program with
\* every pool, and the empty instruction list with the pool of three
\* constants, which a load that installed it would show.
ModulesOf(programs) ==
    { ModuleArgs(prog, consts) :
        prog \in programs \ {<<>>}, consts \in ConstantPools }
    \cup { ModuleArgs(<<>>, consts) : consts \in ConstantPools \ {<<>>} }

LoadProgram ==
    /\ Alive
    /\ \E prog \in Programs :
          /\ \E vm \in {vm_load_program(VmState, prog)} : SetVm(vm)
          /\ last_instr' = ProgramArg(prog)
    /\ last_call' = "load_program"
    /\ returned' = NullV
    /\ last_result' = "Ok"

LoadBytecodeModule ==
    /\ Alive
    /\ \E args \in ModulesOf(Programs) :
          /\ \E r \in {vm_load_bytecode_module(VmState, args.instructions,
                                                args.constants)} :
                SetVm(r.vm) /\ last_result' = r.res
          /\ last_instr' = args
    /\ last_call' = "load_bytecode_module"
    /\ returned' = NullV

Reset ==
    /\ Alive
    /\ \E vm \in {vm_reset(VmState)} : SetVm(vm)
    /\ last_call' = "reset"
    /\ last_instr' = NoInstr
    /\ returned' = NullV
    /\ last_result' = "Ok"

Step ==
    /\ Alive
    /\ \E r \in {vm_step(VmState)} :
          WithinBounds(r.vm) /\ SetVm(r.vm) /\ last_result' = r.res
    /\ last_call' = "step"
    /\ last_instr' = NoInstr
    /\ returned' = NullV

Run ==
    /\ Alive
    /\ \E r \in {vm_run(VmState)} :
          WithinBounds(r.vm) /\ SetVm(r.vm) /\ last_result' = r.res
    /\ last_call' = "run"
    /\ last_instr' = NoInstr
    /\ returned' = NullV

\* vm.trigger_gc(), one of the calls of SpecProfiled and SpecVmLocals.
TriggerGc ==
    /\ Alive
    /\ \E r \in {vm_trigger_gc(VmState)} :
          SetVm(r.vm) /\ returned' = IntV(r.count)
    /\ last_call' = "trigger_gc"
    /\ last_instr' = NoInstr
    /\ last_result' = "Ok"

Next == LoadProgram \/ LoadBytecodeModule \/ Reset \/ Step \/ Run

Spec == Init /\ [][Next]_vars

(***************************************************************************)
(* The operand stack on its own (stack.rs), driven through its public      *)
(* operations.  The rest of the VM stays as constructed.                   *)
(***************************************************************************)
StackValues == { IntV(1), IntV(2), BoolV(TRUE) }

\* with_capacity's arguments: small capacities, and one above the absolute
\* maximum, which the constructor clamps.
StackCapacities == 0..MaxCap \cup {MAX_STACK_SIZE + 1}

\* The model pushes on stacks of at most MaxCap values, so a stack holds at
\* most MaxCap + 1.
PushInBounds == Len(operand_stack.values) <= MaxCap

StackFrame == UNCHANGED <<program, constants, call_stack, dispatcher, heap, halted,
                          max_instructions, profiler, last_instr>>

InitStack ==
    /\ operand_stack \in {OperandStack_new}
                          \cup {OperandStack_with_capacity(c) : c \in StackCapacities}
    /\ program = <<>>
    /\ constants = <<>>
    /\ call_stack = CallStack_new
    /\ dispatcher = InstructionDispatcher_new
    /\ heap = Heap_new
    /\ profiler = NoProfiler
    /\ halted = FALSE
    /\ max_instructions = 0
    /\ last_call = "new"
    /\ last_result = "Ok"
    /\ last_instr = NoInstr
    /\ returned = NullV

StackPush ==
    /\ Alive /\ PushInBounds
    /\ \E v \in StackValues :
          \E r \in {stack_push(operand_stack, v)} :
              /\ operand_stack' = r.st
              /\ last_result' = IF r.panic THEN "Panic" ELSE "Ok"
    /\ last_call' = "push"
    /\ returned' = NullV
    /\ StackFrame

StackTryPush ==
    /\ Alive /\ PushInBounds
    /\ \E v \in StackValues :
          \E r \in {stack_try_push(operand_stack, v)} :
              operand_stack' = r.st /\ last_result' = r.res
    /\ last_call' = "try_push"
    /\ returned' = NullV
    /\ StackFrame

StackPop ==
    /\ Alive
    /\ \E r \in {stack_pop(operand_stack)} :
          operand_stack' = r.st /\ last_result' = r.res /\ returned' = r.val
    /\ last_call' = "pop"
    /\ StackFrame

StackPeek ==
    /\ Alive
    /\ \E r \in {stack_peek(operand_stack)} :
          last_result' = r.res /\ returned' = r.val
    /\ operand_stack' = operand_stack
    /\ last_call' = "peek"
    /\ StackFrame

StackClear ==
    /\ Alive
    /\ operand_stack' = stack_clear(operand_stack)
    /\ last_call' = "clear"
    /\ last_result' = "Ok"
    /\ returned' = NullV
    /\ StackFrame

NextStack == StackPush \/ StackTryPush \/ StackPop \/ StackPeek \/ StackClear

SpecStack == InitStack /\ [][NextStack]_vars

(***************************************************************************)
(* The dispatcher on its own (instruction.rs), called through execute on   *)
(* an operand stack and a call stack its caller owns, beside the call      *)
(* stack's own push and pop.                                               *)
(***************************************************************************)
DispatchInstrs ==
    { OpI("Call", 0), OpI("Call", 2), Op0("Return"), OpI("Push", 1), Op0("Pop") }

DispatchFrames == { CallFrame_new(1, 4, 0), CallFrame_new(2, 8, 1) }

DispatchFrame ==
    UNCHANGED <<program, constants, halted, max_instructions, profiler, last_instr>>

InitDispatch ==
    /\ call_stack \in {CallStack_with_max_depth(d) : d \in 0..MaxCap}
    /\ operand_stack = OperandStack_new
    /\ program = <<>>
    /\ constants = <<>>
    /\ dispatcher = InstructionDispatcher_new
    /\ heap = Heap_new
    /\ profiler = NoProfiler
    /\ halted = FALSE
    /\ max_instructions = 0
    /\ last_call = "new"
    /\ last_result = "Ok"
    /\ last_instr = NoInstr
    /\ returned = NullV

\* The model makes at most MaxOps execute calls and keeps at most
\* MaxCap + 1 frames.
DispatchInBounds ==
    /\ dispatcher.instruction_count < MaxOps
    /\ Len(call_stack.frames) <= MaxCap

Execute ==
    /\ Alive /\ DispatchInBounds
    /\ \E instr \in DispatchInstrs :
          \E x \in {execute(MkCtx(operand_stack, call_stack, dispatcher.program_counter,
                                   dispatcher.instruction_count, heap), instr)} :
              /\ operand_stack' = x.stack
              /\ call_stack' = x.cs
              /\ dispatcher' = [program_counter |-> x.pc, instruction_count |-> x.icount]
              /\ heap' = x.heap
              /\ last_result' = x.res
    /\ last_call' = "execute"
    /\ returned' = NullV
    /\ DispatchFrame

CallStackPush ==
    /\ Alive /\ DispatchInBounds
    /\ \E frame \in DispatchFrames :
          \E r \in {callstack_push(call_stack, frame)} :
              call_stack' = r.cs /\ last_result' = r.res
    /\ last_call' = "callstack_push"
    /\ returned' = NullV
    /\ UNCHANGED <<operand_stack, dispatcher, heap>>
    /\ DispatchFrame

CallStackPop ==
    /\ Alive
    /\ \E r \in {callstack_pop(call_stack)} :
          call_stack' = r.cs /\ last_result' = r.res
    /\ last_call' = "callstack_pop"
    /\ returned' = NullV
    /\ UNCHANGED <<operand_stack, dispatcher, heap>>
    /\ DispatchFrame

\* The addresses handed to set_return_address.
ReturnAddresses == {8}

\* call_stack.current_mut()?.set_return_address(address)
SetReturnAddress ==
    /\ Alive
    /\ \E address \in ReturnAddresses :
          \E r \in {callstack_current(call_stack)} :
              /\ last_result' = r.res
              /\ call_stack' =
                    IF r.res = "Ok"
                    THEN [call_stack EXCEPT
                            !.frames[Len(call_stack.frames)] =
                                set_return_address(r.frame, address)]
                    ELSE call_stack
    /\ last_call' = "set_return_address"
    /\ returned' = NullV
    /\ UNCHANGED <<operand_stack, dispatcher, heap>>
    /\ DispatchFrame

NextDispatch == Execute \/ CallStackPush \/ CallStackPop \/ SetReturnAddress

SpecDispatch == InitDispatch /\ [][NextDispatch]_vars

(***************************************************************************)
(* Vocabulary of the properties.                                           *)
(***************************************************************************)
PC == dispatcher.program_counter
ICount == dispatcher.instruction_count
StackValuesNow == operand_stack.values
Depth == Len(call_stack.frames)
Front(sq) == SubSeq(sq, 1, Len(sq) - 1)
Last(sq) == sq[Len(sq)]

\* The ExecutionError kinds step and run can return.
ExecutionErrors ==
    { "StackUnderflow", "TypeError", "DivisionByZero", "InsufficientOperands",
      "InvalidOperand", "InvalidJumpAddress", "CallFrameError" }

\* This transition is a step call that fetches the instruction at PC.
StepFetches == last_call' = "step" /\ ~halted /\ PC < Len(program)
\* ... and that instruction has opcode op.
StepExecutes(op) == StepFetches /\ program[PC + 1].opcode = op
\* The operand of the instruction at PC is a non-negative Integer.
TargetOk == program[PC + 1].operand.tag = "Integer" /\ program[PC + 1].operand.i >= 0
Target == program[PC + 1].operand.i

ArithmeticProgram ==
    <<OpI("Push", 5), OpI("Push", 3), Op0("Add"), OpI("Push", 2), Op0("Mul"), Op0("Halt")>>
CallReturnProgram == <<OpI("Call", 2), Op0("Halt"), OpI("Push", 42), Op0("Return")>>
JumpZeroProgram == <<OpI("Jump", 0)>>

(***************************************************************************)
(* The VM with its profiler (runtime.rs, jit.rs): the VM's operations      *)
(* beside enable_profiling, disable_profiling and reset_profiler, on a few *)
(* programs that halt, loop, fault and branch.                             *)
(***************************************************************************)
FaultingProgram == <<OpI("Push", 5), Op0("Add"), Op0("Halt")>>

AllocatingProgram == <<Op0("NewObject"), Op0("Halt")>>

ProfiledPrograms ==
    { CallReturnProgram, JumpZeroProgram, FaultingProgram, AllocatingProgram,
      <<Op0("Halt")>> }

LoadProfiledProgram ==
    /\ Alive
    /\ \E prog \in ProfiledPrograms :
          /\ \E vm \in {vm_load_program(VmState, prog)} : SetVm(vm)
          /\ last_instr' = ProgramArg(prog)
    /\ last_call' = "load_program"
    /\ returned' = NullV
    /\ last_result' = "Ok"

LoadProfiledModule ==
    /\ Alive
    /\ \E args \in ModulesOf(ProfiledPrograms) :
          /\ \E r \in {vm_load_bytecode_module(VmState, args.instructions,
                                                args.constants)} :
                SetVm(r.vm) /\ last_result' = r.res
          /\ last_instr' = args
    /\ last_call' = "load_bytecode_module"
    /\ returned' = NullV

EnableProfiling ==
    /\ Alive
    /\ \E vm \in {vm_enable_profiling(VmState)} : SetVm(vm)
    /\ last_call' = "enable_profiling"
    /\ last_instr' = NoInstr
    /\ returned' = NullV
    /\ last_result' = "Ok"

DisableProfiling ==
    /\ Alive
    /\ \E vm \in {vm_disable_profiling(VmState)} : SetVm(vm)
    /\ last_call' = "disable_profiling"
    /\ last_instr' = NoInstr
    /\ returned' = NullV
    /\ last_result' = "Ok"

ResetProfiler ==
    /\ Alive
    /\ \E vm \in {vm_reset_profiler(VmState)} : SetVm(vm)
    /\ last_call' = "reset_profiler"
    /\ last_instr' = NoInstr
    /\ returned' = NullV
    /\ last_result' = "Ok"

NextProfiled ==
    \/ LoadProfiledProgram \/ LoadProfiledModule \/ Reset \/ Step \/ Run
    \/ EnableProfiling \/ DisableProfiling \/ ResetProfiler \/ TriggerGc

SpecProfiled == Init /\ [][NextProfiled]_vars

(***************************************************************************)
(* C1.  Whenever run returns Ok, the VM is halted, the PC is inside the    *)
(* program and designates a Halt instruction, and instruction_count is     *)
(* below max_instructions.                                                 *)
(***************************************************************************)
C1_RunOkEndsAtHalt ==
    (last_call = "run" /\ last_result = "Ok")
        => /\ halted
           /\ PC < Len(program)
           /\ program[PC + 1].opcode = "Halt"
           /\ ICount < max_instructions

\* run returned Ok on the arithmetic scenario after dispatching its five
\* instructions and stopping at the Halt at PC 5.
C1_Witness ==
    /\ last_call = "run" /\ last_result = "Ok"
    /\ program = ArithmeticProgram /\ PC = 5 /\ ICount = 5 /\ halted

(***************************************************************************)
(* C2.  The PC never exceeds the program length, whatever targets Jump,    *)
(* JumpIfTrue, JumpIfFalse, Call and Return are given.                     *)
(***************************************************************************)
C2_PcWithinProgram == PC <= Len(program)

(***************************************************************************)
(* C3.  A step that executes JumpIfTrue t or JumpIfFalse t (t a            *)
(* non-negative Integer) on a non-empty stack pops exactly the top value   *)
(* and sets the PC to t when the branch is taken and to PC + 1 when it is  *)
(* not.                                                                    *)
(***************************************************************************)
C3_Taken ==
    \/ program[PC + 1].opcode = "JumpIfTrue" /\ is_truthy(Last(StackValuesNow))
    \/ program[PC + 1].opcode = "JumpIfFalse" /\ ~is_truthy(Last(StackValuesNow))

C3_ConditionalJump ==
    [][ ( /\ (StepExecutes("JumpIfTrue") \/ StepExecutes("JumpIfFalse"))
          /\ TargetOk
          /\ Len(StackValuesNow) >= 1 )
        => /\ operand_stack'.values = Front(StackValuesNow)
           /\ dispatcher'.program_counter = IF C3_Taken THEN Target ELSE PC + 1
      ]_vars

(***************************************************************************)
(* C4.  A step that executes Call t at PC p pushes exactly one frame, with *)
(* return address p + 1, and sets the PC to t; a step that executes Return *)
(* with a frame on the call stack pops exactly the top frame and sets the  *)
(* PC to its return address; and run on Call 2; Halt; Push 42; Return      *)
(* ends with Integer(42) on top of the stack and call depth 0.             *)
(***************************************************************************)
C4_CallStep ==
    (StepExecutes("Call") /\ TargetOk)
        => /\ last_result' = "Ok"
           /\ Len(call_stack'.frames) = Depth + 1
           /\ Front(call_stack'.frames) = call_stack.frames
           /\ Last(call_stack'.frames).return_address = PC + 1
           /\ dispatcher'.program_counter = Target

C4_ReturnStep ==
    (StepExecutes("Return") /\ Depth >= 1)
        => /\ last_result' = "Ok"
           /\ call_stack'.frames = Front(call_stack.frames)
           /\ dispatcher'.program_counter = Last(call_stack.frames).return_address

C4_Scenario ==
    (program = CallReturnProgram /\ last_call = "run" /\ last_result = "Ok")
        => /\ Len(StackValuesNow) >= 1
           /\ Last(StackValuesNow) = IntV(42)
           /\ Depth = 0

C4_CallReturn == [][C4_CallStep /\ C4_ReturnStep]_vars /\ []C4_Scenario

\* Stepping through Call 2; Push 42; Return: the Return has just brought the
\* PC back to 1, the call site + 1, with no frame left.
C4_Witness ==
    /\ program = CallReturnProgram /\ last_call = "step" /\ last_result = "Ok"
    /\ ICount = 3 /\ PC = 1 /\ Depth = 0
    /\ StackValuesNow = <<IntV(42)>>

(***************************************************************************)
(* C5.  Once step or run has returned an execution error, a further step   *)
(* or run dispatches nothing: operand stack, call stack, PC, heap counters *)
(* and instruction_count stay as they are.                                 *)
(***************************************************************************)
C5_FaultedVmStops ==
    [][ ( /\ last_call \in {"step", "run"}
          /\ last_result \in ExecutionErrors
          /\ last_call' \in {"step", "run"} )
        => UNCHANGED <<operand_stack, call_stack, dispatcher, heap>>
      ]_vars

(***************************************************************************)
(* C6.  The call depth never exceeds the call stack's maximum depth:       *)
(* neither CallStack::push nor the Call instruction takes it beyond.       *)
(***************************************************************************)
C6_DepthWithinMax == Depth <= call_stack.max_depth

(***************************************************************************)
(* C7.  An OperandStack never holds more values than its ceiling           *)
(* (min(capacity, MAX_STACK_SIZE), or MAX_STACK_SIZE for new); push at the *)
(* ceiling is fatal and try_push at the ceiling returns Overflow; pop and  *)
(* peek on an empty stack return Underflow; each of these failures leaves  *)
(* the contents unchanged; pop returns the most recently pushed value.     *)
(***************************************************************************)
Ceiling ==
    IF operand_stack.max_size.some THEN operand_stack.max_size.val ELSE MAX_STACK_SIZE

C7_SizeWithinCeiling ==
    /\ stack_size(operand_stack) <= Ceiling
    /\ Ceiling <= MAX_STACK_SIZE
    /\ operand_stack.max_size.some
          => \E c \in StackCapacities :
                Ceiling = IF c < MAX_STACK_SIZE THEN c ELSE MAX_STACK_SIZE

C7_PushStep ==
    last_call' = "push"
        => IF stack_size(operand_stack) >= Ceiling
           THEN last_result' = "Panic" /\ operand_stack' = operand_stack
           ELSE /\ last_result' = "Ok"
                /\ Len(operand_stack'.values) = Len(StackValuesNow) + 1
                /\ Front(operand_stack'.values) = StackValuesNow

C7_TryPushStep ==
    last_call' = "try_push"
        => IF stack_size(operand_stack) >= Ceiling
           THEN last_result' = "Overflow" /\ operand_stack' = operand_stack
           ELSE /\ last_result' = "Ok"
                /\ Len(operand_stack'.values) = Len(StackValuesNow) + 1
                /\ Front(operand_stack'.values) = StackValuesNow

C7_PopStep ==
    last_call' = "pop"
        => IF StackValuesNow = <<>>
           THEN last_result' = "Underflow" /\ operand_stack' = operand_stack
           ELSE /\ last_result' = "Ok"
                /\ returned' = Last(StackValuesNow)
                /\ operand_stack'.values = Front(StackValuesNow)

C7_PeekStep ==
    last_call' = "peek"
        => /\ operand_stack' = operand_stack
           /\ IF StackValuesNow = <<>>
              THEN last_result' = "Underflow"
              ELSE last_result' = "Ok" /\ returned' = Last(StackValuesNow)

C7_OperandStack ==
    /\ []C7_SizeWithinCeiling
    /\ [][C7_PushStep /\ C7_TryPushStep /\ C7_PopStep /\ C7_PeekStep]_vars

\* A with_capacity(2) stack that is full: the try_push just made was refused
\* with Overflow and the two values pushed before are still there.
C7_Witness ==
    /\ operand_stack.max_size = SomeUsize(2)
    /\ Len(StackValuesNow) = 2
    /\ last_call = "try_push" /\ last_result = "Overflow"

(***************************************************************************)
(* C8.  A call of run dispatches at most max(0, max_instructions -         *)
(* instruction_count) instructions; when the program is non-empty and run  *)
(* ends neither halted nor on a fault, it returns InvalidProgramState with *)
(* instruction_count >= max_instructions and halted false (Jump 0 with     *)
(* max_instructions = 5 does so).                                          *)
(***************************************************************************)
C8_Budget ==
    IF max_instructions > ICount THEN max_instructions - ICount ELSE 0

C8_RunStep ==
    last_call' = "run" => dispatcher'.instruction_count - ICount <= C8_Budget

C8_RunResult ==
    ( /\ last_call = "run"
      /\ Len(program) > 0
      /\ ~halted
      /\ last_result \notin ExecutionErrors \cup {"ProgramCounterOutOfBounds"} )
        => last_result = "InvalidProgramState" /\ ICount >= max_instructions

C8_JumpZero ==
    (program = JumpZeroProgram /\ last_call = "run")
        => last_result = "InvalidProgramState" /\ ICount >= max_instructions /\ ~halted

C8_RunTerminates == [][C8_RunStep]_vars /\ [](C8_RunResult /\ C8_JumpZero)

\* run on Jump 0 with max_instructions = 5 came back after exactly five
\* dispatches with the quota error.
C8_Witness ==
    /\ program = JumpZeroProgram /\ max_instructions = 5
    /\ last_call = "run" /\ last_result = "InvalidProgramState"
    /\ ICount = 5 /\ ~halted

(***************************************************************************)
(* C9.  The quota error is raised only when the quota is exceeded: if a    *)
(* freshly loaded program reaches its Halt after executing k <=            *)
(* max_instructions instructions without error, run returns Ok with the VM *)
(* halted.                                                                 *)
(***************************************************************************)
\* The machine as load_program / reset leave it.
C9_Fresh ==
    /\ dispatcher = InstructionDispatcher_new
    /\ StackValuesNow = <<>> /\ Depth = 0 /\ ~halted

\* Stepping vm with no quota until it halts, faults or has executed more
\* than k instructions.
RECURSIVE C9_StepUntil(_, _)
C9_StepUntil(vm, k) ==
    IF vm.halted \/ vm.dispatcher.instruction_count > k
    THEN vm
    ELSE Bind(vm_step(vm), LAMBDA r :
            IF r.res = "Ok" THEN C9_StepUntil(r.vm, k) ELSE r.vm)

C9_HaltsWithin(vm, k) ==
    Bind(C9_StepUntil(vm, k), LAMBDA e :
        e.halted /\ e.dispatcher.instruction_count <= k)

C9_QuotaOnlyWhenExceeded ==
    [][ ( /\ C9_Fresh
          /\ last_call' = "run"
          /\ C9_HaltsWithin(VmState, max_instructions) )
        => last_result' = "Ok" /\ halted'
      ]_vars

(***************************************************************************)
(* C10 (as stated).  instruction_count counts every executed instruction,  *)
(* the terminating Halt included: Push 5; Push 3; Add; Push 2; Mul; Halt   *)
(* ends with Integer(16) on top and instruction_count = 6.                 *)
(***************************************************************************)
C10_CountIncludesHalt ==
    ( /\ program = ArithmeticProgram /\ constants = <<>>
      /\ last_call = "run" /\ last_result = "Ok" )
        => /\ Len(StackValuesNow) >= 1
           /\ Last(StackValuesNow) = IntV(16)
           /\ ICount = 6

(***************************************************************************)
(* C10 (amended).  instruction_count counts every dispatched instruction   *)
(* and not the terminating Halt: a step that fetches Halt leaves it        *)
(* unchanged, a step that fetches any other instruction adds exactly one,  *)
(* and Push 5; Push 3; Add; Push 2; Mul; Halt ends with Integer(16) on top *)
(* and instruction_count = 5.                                              *)
(***************************************************************************)
C10_StepCounts ==
    StepFetches
        => dispatcher'.instruction_count =
              IF program[PC + 1].opcode = "Halt" THEN ICount ELSE ICount + 1

C10_Scenario ==
    ( /\ program = ArithmeticProgram /\ constants = <<>>
      /\ last_call = "run" /\ last_result = "Ok" )
        => /\ Len(StackValuesNow) >= 1
           /\ Last(StackValuesNow) = IntV(16)
           /\ ICount = 5

C10_CountExcludesHalt == [][C10_StepCounts]_vars /\ []C10_Scenario

\* run finished the arithmetic scenario: 16 on top, halted at the Halt.
C10_Witness ==
    /\ program = ArithmeticProgram /\ constants = <<>>
    /\ last_call = "run" /\ last_result = "Ok" /\ halted
    /\ StackValuesNow = <<IntV(16)>>

(***************************************************************************)
(* C11.  On a halted VM step returns Ok and neither step nor run changes   *)
(* the PC, the stacks, the heap counters, instruction_count or the         *)
(* profiler's counts; halted stays true, with the PC on the Halt that set  *)
(* it, until reset, load_program or a successful load_bytecode_module.     *)
(***************************************************************************)
C11_HaltedStepRun ==
    (halted /\ last_call' \in {"step", "run"})
        => /\ UNCHANGED <<program, constants, operand_stack, call_stack, dispatcher,
                          heap, profiler, halted>>
           /\ last_call' = "step" => last_result' = "Ok"

C11_HaltedStays ==
    ( /\ halted
      /\ last_call' \notin {"reset", "load_program"}
      /\ ~(last_call' = "load_bytecode_module" /\ last_result' = "Ok") )
        => halted' /\ dispatcher'.program_counter = PC /\ program' = program

C11_PcOnHalt == halted => PC < Len(program) /\ program[PC + 1].opcode = "Halt"

C11_HaltedIsFrozen == [][C11_HaltedStepRun /\ C11_HaltedStays]_vars /\ []C11_PcOnHalt

\* run was called on a VM already halted with its quota used up (run itself
\* never halts and fails): it reported the quota and the VM, which has
\* profiled three instructions, is still halted.
C11_Witness ==
    /\ halted /\ last_call = "run" /\ last_result = "InvalidProgramState"
    /\ profiler.some /\ ProfileSum(profiler.instruction_profiles) = 3
    /\ PC > 0

(***************************************************************************)
(* C12.  reset, from any state, sets the PC and instruction_count to 0 and *)
(* halted to false and empties the operand stack and the call stack; the   *)
(* program, the constants pool, max_instructions, the heap counters and    *)
(* the profiler data are unchanged.                                        *)
(***************************************************************************)
C12_ResetStep ==
    last_call' = "reset"
        => /\ dispatcher'.program_counter = 0
           /\ dispatcher'.instruction_count = 0
           /\ ~halted'
           /\ operand_stack'.values = <<>>
           /\ call_stack'.frames = <<>>
           /\ UNCHANGED <<program, constants, max_instructions, heap, profiler>>

C12_Reset == [][C12_ResetStep]_vars

\* reset was called after a profiled run that allocated an object: the
\* execution state is cleared, program, heap counters and profile are kept.
C12_Witness ==
    /\ last_call = "reset" /\ ICount = 0 /\ PC = 0 /\ ~halted
    /\ program = AllocatingProgram
    /\ heap.allocated_objects >= 1
    /\ profiler.some /\ ProfileSum(profiler.instruction_profiles) >= 1

(***************************************************************************)
(* C13.  load_bytecode_module with an empty instruction list returns       *)
(* InvalidProgramState and leaves the VM exactly as it was; with a         *)
(* non-empty list it replaces program and constants pool by the two        *)
(* arguments of the call and leaves the VM in the reset state.             *)
(***************************************************************************)
\* The instructions and the constants the call was given.
C13_Instructions == last_instr'.instructions
C13_Constants == last_instr'.constants

C13_Rejected ==
    /\ last_result' = "InvalidProgramState"
    /\ UNCHANGED <<program, constants, operand_stack, call_stack, dispatcher, heap,
                   profiler, halted, max_instructions>>

C13_Loaded(instructions, consts) ==
    /\ last_result' = "Ok"
    /\ program' = instructions
    /\ constants' = consts
    /\ dispatcher'.program_counter = 0
    /\ dispatcher'.instruction_count = 0
    /\ operand_stack'.values = <<>>
    /\ call_stack'.frames = <<>>
    /\ ~halted'

C13_LoadStep ==
    last_call' = "load_bytecode_module"
        => /\ last_result' = "Ok" => program' # <<>>
           /\ IF C13_Instructions = <<>> THEN C13_Rejected
              ELSE C13_Loaded(C13_Instructions, C13_Constants)

C13_LoadBytecodeModule == [][C13_LoadStep]_vars

\* An empty module was refused on a VM in the middle of an execution, which
\* still has its program, its stack and its count.
C13_Witness ==
    /\ last_call = "load_bytecode_module" /\ last_result = "InvalidProgramState"
    /\ program # <<>> /\ ICount > 0 /\ StackValuesNow # <<>>

(***************************************************************************)
(* C14.  Push executed by the VM: an absent operand fails with             *)
(* InsufficientOperands; Integer i with a non-empty constants pool pushes  *)
(* constants[i] when 0 <= i < pool size and fails with InvalidOperand for  *)
(* every other i; Integer i with an empty pool pushes Integer(i); any      *)
(* other operand is pushed as it is.  A success grows the stack by exactly *)
(* that one value, a failure leaves it unchanged.                          *)
(***************************************************************************)
C14_Pushes(v) ==
    last_result' = "Ok" /\ operand_stack'.values = Append(StackValuesNow, v)

C14_Fails(kind) ==
    last_result' = kind /\ operand_stack' = operand_stack

C14_PushStep ==
    StepExecutes("Push")
        => LET operand == program[PC + 1].operand
           IN CASE operand.tag = "None" -> C14_Fails("InsufficientOperands")
                [] operand.tag = "Integer" /\ constants # <<>> ->
                     IF 0 <= operand.i /\ operand.i < Len(constants)
                     THEN C14_Pushes(constants[operand.i + 1])
                     ELSE C14_Fails("InvalidOperand")
                [] operand.tag = "Integer" /\ constants = <<>> ->
                     C14_Pushes(IntV(operand.i))
                [] OTHER -> C14_Pushes(operand)

C14_PushByOperandShape == [][C14_PushStep]_vars

\* Push 0 then Push 1 stepped with the pool <<15, 25, 2>>: the stack holds
\* the two constants, not the literals 0 and 1.
C14_Witness ==
    /\ last_call = "step" /\ last_result = "Ok"
    /\ constants = <<IntV(15), IntV(25), IntV(2)>>
    /\ StackValuesNow = <<IntV(15), IntV(25)>>

(***************************************************************************)
(* The dispatcher's arithmetic, comparison and logical opcodes             *)
(* (instruction.rs), executed on operand stacks of every mix of value      *)
(* types.  The Floats drawn are dyadic, so that every operand of a first   *)
(* instruction is exact; a second Div may take the first result as its     *)
(* divisor, and its quotient is then the binary64 nearest to n/d.          *)
(***************************************************************************)
\* Values for a, the operand pushed first.
OpsLeft ==
    { IntV(7), IntV(-7), IntV(0), FloatV(1, 2), FloatV(-3, 2), FloatV(2, 1),
      BoolV(TRUE), StrV(""), StrV("a"), GcStringV(1, "g"), GcObjectV(2), NullV }

\* Values for b, the operand on top.
OpsRight ==
    { IntV(2), IntV(-2), IntV(0), FloatV(1, 2), FloatV(0, 1), FloatV(2, 1),
      BoolV(FALSE), StrV("a"), NullV }

\* What lies below the operands.
OpsBases == { <<>>, <<IntV(9)>> }

OpsStacks ==
    {<<>>} \cup { <<b>> : b \in OpsRight }
           \cup { base \o <<a, b>> : base \in OpsBases, a \in OpsLeft, b \in OpsRight }

LogicOps == {"And", "Or", "Not", "Xor"}
EqualityOps == {"Equal", "NotEqual"}

OpsInstrs == { Op0(op) : op \in ArithOps \cup CompareOps \cup EqualityOps \cup LogicOps }

InitOps ==
    /\ operand_stack \in { [OperandStack_new EXCEPT !.values = st] : st \in OpsStacks }
    /\ call_stack = CallStack_new
    /\ program = <<>>
    /\ constants = <<>>
    /\ dispatcher = InstructionDispatcher_new
    /\ heap = Heap_new
    /\ profiler = NoProfiler
    /\ halted = FALSE
    /\ max_instructions = 0
    /\ last_call = "new"
    /\ last_result = "Ok"
    /\ last_instr = NoInstr
    /\ returned = NullV

\* The operands an arithmetic instruction would pop are exact.
ExactOperands(instr) ==
    instr.opcode \in ArithOps =>
        \A k \in 1 .. Len(operand_stack.values) :
            k >= Len(operand_stack.values) - 1 => IsExact(operand_stack.values[k])

ExecuteOp ==
    /\ Alive /\ dispatcher.instruction_count < MaxChain
    /\ \E instr \in { i \in OpsInstrs : ExactOperands(i) } :
          \E x \in {execute_with_constants(
                        MkCtx(operand_stack, call_stack, dispatcher.program_counter,
                              dispatcher.instruction_count, heap), instr, constants)} :
              /\ operand_stack' = x.stack
              /\ call_stack' = x.cs
              /\ dispatcher' = [program_counter |-> x.pc, instruction_count |-> x.icount]
              /\ heap' = x.heap
              /\ last_result' = x.res
              /\ last_instr' = instr
    /\ last_call' = "execute"
    /\ returned' = NullV
    /\ UNCHANGED <<program, constants, halted, max_instructions, profiler>>

NextOps == ExecuteOp

SpecOps == InitOps /\ [][NextOps]_vars

\* This transition executes an instruction of one of the opcodes ops on a
\* stack of at least n values.
Executes(ops, n) ==
    /\ last_call' = "execute"
    /\ last_instr'.opcode \in ops
    /\ Len(StackValuesNow) >= n

\* The operands of a binary opcode: b on top, a below it, Rest below both.
OperandB == StackValuesNow[Len(StackValuesNow)]
OperandA == StackValuesNow[Len(StackValuesNow) - 1]
Rest == SubSeq(StackValuesNow, 1, Len(StackValuesNow) - 2)

\* The instruction popped its operands and pushed v.
Yields(v) == last_result' = "Ok" /\ operand_stack'.values = Append(Rest, v)

(***************************************************************************)
(* C15.  Add, Sub, Mul, Div and Mod on a stack ending in a, b with numeric *)
(* operands and a non-zero divisor (both Integer for Mod) pop b then a and *)
(* push the single result a op b: an Integer when both are Integer, Div    *)
(* truncating toward zero and Mod taking the sign of a, and the Float      *)
(* a op b when either is a Float.  The stack below is untouched and the    *)
(* depth decreases by one.                                                 *)
(***************************************************************************)
\* The quotient of a by b truncated toward zero, from its defining property:
\* the remainder is smaller than b in magnitude and has the sign of a.
C15_Quotient(a, b) ==
    CHOOSE q \in -Abs(a)..Abs(a) :
        LET r == a - q * b
        IN Abs(r) < Abs(b) /\ (r = 0 \/ (r < 0) = (a < 0))

C15_Integer(op, a, b) ==
    CASE op = "Add" -> a + b
      [] op = "Sub" -> a - b
      [] op = "Mul" -> a * b
      [] op = "Div" -> C15_Quotient(a, b)
      [] op = "Mod" -> a - b * C15_Quotient(a, b)

\* v is the Float n / d.
C15_IsFloat(v, n, d) ==
    v.tag = "Float" /\ v.d # 0 /\ d # 0 /\ v.i * d = n * v.d

\* v is the Float a op b, a and b taken as the rationals na/da and nb/db.
C15_Float(op, na, da, nb, db, v) ==
    CASE op = "Add" -> C15_IsFloat(v, na * db + nb * da, da * db)
      [] op = "Sub" -> C15_IsFloat(v, na * db - nb * da, da * db)
      [] op = "Mul" -> C15_IsFloat(v, na * nb, da * db)
      [] op = "Div" -> C15_IsFloat(v, na * db, da * nb)
      [] op = "Mod" -> FALSE

C15_IsResult(op, a, b, v) ==
    IF a.tag = "Integer" /\ b.tag = "Integer"
    THEN v = IntV(C15_Integer(op, a.i, b.i))
    ELSE C15_Float(op, a.i, Den(a), b.i, Den(b), v)

C15_ArithStep ==
    ( /\ Executes(ArithOps, 2)
      /\ IsNumeric(OperandA) /\ IsNumeric(OperandB)
      /\ last_instr'.opcode \in {"Div", "Mod"} => OperandB.i # 0
      /\ last_instr'.opcode = "Mod" => OperandA.tag = "Integer" /\ OperandB.tag = "Integer" )
        => /\ last_result' = "Ok"
           /\ Len(operand_stack'.values) = Len(StackValuesNow) - 1
           /\ Front(operand_stack'.values) = Rest
           /\ C15_IsResult(last_instr'.opcode, OperandA, OperandB,
                           Last(operand_stack'.values))

C15_Arithmetic == [][C15_ArithStep]_vars

\* Div on 9, -7, 2 left 9, -3: the quotient is truncated toward zero (not
\* -4) and the 9 below is untouched.
C15_Witness ==
    /\ last_call = "execute" /\ last_instr = Op0("Div") /\ last_result = "Ok"
    /\ ICount = 1
    /\ StackValuesNow = <<IntV(9), IntV(-3)>>

(***************************************************************************)
(* C16 (as stated).  Div or Mod whose divisor b is zero, Integer 0 or      *)
(* Float 0.0, fails with DivisionByZero; any arithmetic opcode with a      *)
(* non-numeric operand, and Mod with a non-Integer operand, fails with     *)
(* TypeError; no result is pushed in either failure.                       *)
(***************************************************************************)
C16_IsZero(v) == IsNumeric(v) /\ v.i = 0
C16_BothInteger == OperandA.tag = "Integer" /\ OperandB.tag = "Integer"
C16_BothNumeric == IsNumeric(OperandA) /\ IsNumeric(OperandB)
C16_FailsWith(kind) == last_result' = kind /\ operand_stack'.values = Rest

C16_BadType ==
    \/ ~C16_BothNumeric
    \/ last_instr'.opcode = "Mod" /\ ~C16_BothInteger

C16_StatedStep ==
    Executes(ArithOps, 2)
        => /\ (last_instr'.opcode \in {"Div", "Mod"} /\ C16_IsZero(OperandB))
                 => C16_FailsWith("DivisionByZero")
           /\ C16_BadType => C16_FailsWith("TypeError")

C16_ZeroDivisorAlwaysDivisionByZero == [][C16_StatedStep]_vars

(***************************************************************************)
(* C16 (amended).  Div with numeric operands and a zero divisor (Integer 0 *)
(* or Float 0.0) and Mod with Integer operands and divisor 0 fail with     *)
(* DivisionByZero; any arithmetic opcode with a non-numeric operand, and   *)
(* Mod with a non-Integer operand (a Float 0.0 divisor included), fails    *)
(* with TypeError, whatever the divisor; both operands are popped and no   *)
(* result is pushed.                                                       *)
(***************************************************************************)
C16_AmendedStep ==
    Executes(ArithOps, 2)
        => /\ ( /\ last_instr'.opcode \in {"Div", "Mod"}
                /\ C16_IsZero(OperandB)
                /\ ~C16_BadType )
                 => C16_FailsWith("DivisionByZero")
           /\ C16_BadType => C16_FailsWith("TypeError")

C16_TypeErrorBeforeDivisionByZero == [][C16_AmendedStep]_vars

\* Mod on 9, 7, 0.0 (or any other operands of the wrong type) ended with
\* TypeError and only the 9 left.
C16_Witness ==
    /\ last_call = "execute" /\ last_instr = Op0("Mod") /\ last_result = "TypeError"
    /\ ICount = 1
    /\ StackValuesNow = <<IntV(9)>>

(***************************************************************************)
(* C17 (as stated).  An arithmetic opcode that fails with TypeError on a   *)
(* stack of at least two values leaves the stack exactly one element       *)
(* shorter than before.                                                    *)
(***************************************************************************)
C17_TypeErrorStep == Executes(ArithOps, 2) /\ last_result' = "TypeError"

C17_OneShorter ==
    [][C17_TypeErrorStep
         => Len(operand_stack'.values) = Len(StackValuesNow) - 1]_vars

(***************************************************************************)
(* C17 (amended).  An arithmetic opcode that fails with TypeError on a     *)
(* stack of at least two values has popped both operands: the stack is     *)
(* exactly two elements shorter, the values below unchanged.               *)
(***************************************************************************)
C17_TwoShorter ==
    [][C17_TypeErrorStep
         => /\ Len(operand_stack'.values) = Len(StackValuesNow) - 2
            /\ operand_stack'.values = Rest]_vars

\* Add failed with TypeError on a stack of two values, which is now empty.
C17_Witness ==
    /\ last_call = "execute" /\ last_instr = Op0("Add") /\ last_result = "TypeError"
    /\ ICount = 1
    /\ StackValuesNow = <<>>

(***************************************************************************)
(* C18 (as stated).  On a stack ending in a, b with a and b Integer or     *)
(* Float, mixed pairs included, each of Equal, NotEqual, LessThan,         *)
(* LessEqual, GreaterThan, GreaterEqual pops both and pushes Boolean(r),   *)
(* r the mathematical comparison a cmp b; the ordering comparisons fail    *)
(* with TypeError when either operand is not numeric.                      *)
(***************************************************************************)
\* The sign of a - b, the operands taken as rationals.
C18_Difference == OperandA.i * Den(OperandB) - OperandB.i * Den(OperandA)

C18_Mathematical(op) ==
    CASE op = "Equal" -> C18_Difference = 0
      [] op = "NotEqual" -> C18_Difference # 0
      [] op = "LessThan" -> C18_Difference < 0
      [] op = "LessEqual" -> C18_Difference <= 0
      [] op = "GreaterThan" -> C18_Difference > 0
      [] op = "GreaterEqual" -> C18_Difference >= 0

C18_Numeric ==
    OperandA.tag \in {"Integer", "Float"} /\ OperandB.tag \in {"Integer", "Float"}

C18_OrderingTypeError ==
    (last_instr'.opcode \in CompareOps /\ ~C18_Numeric)
        => last_result' = "TypeError"

C18_StatedStep ==
    Executes(EqualityOps \cup CompareOps, 2)
        => /\ C18_Numeric => Yields(BoolV(C18_Mathematical(last_instr'.opcode)))
           /\ C18_OrderingTypeError

C18_AllSixMathematical == [][C18_StatedStep]_vars

(***************************************************************************)
(* C18 (amended).  The four ordering comparisons push the mathematical     *)
(* comparison of numeric a and b, mixed Integer/Float pairs included, and  *)
(* fail with TypeError when either operand is not numeric.  Equal and      *)
(* NotEqual push the mathematical comparison only when a and b have the    *)
(* same type; on a mixed Integer/Float pair Equal pushes false and         *)
(* NotEqual pushes true, whatever the two numbers are.                     *)
(***************************************************************************)
C18_SameType == OperandA.tag = OperandB.tag

C18_AmendedStep ==
    Executes(EqualityOps \cup CompareOps, 2)
        => /\ (C18_Numeric /\ (last_instr'.opcode \in CompareOps \/ C18_SameType))
                 => Yields(BoolV(C18_Mathematical(last_instr'.opcode)))
           /\ (C18_Numeric /\ last_instr'.opcode \in EqualityOps /\ ~C18_SameType)
                 => Yields(BoolV(last_instr'.opcode = "NotEqual"))
           /\ C18_OrderingTypeError

C18_EqualityBySumType == [][C18_AmendedStep]_vars

\* Equal on 9, 2.0, 2 (a mixed pair of equal numbers) left 9, false.
C18_Witness ==
    /\ last_call = "execute" /\ last_instr = Op0("Equal") /\ last_result = "Ok"
    /\ ICount = 1
    /\ StackValuesNow = <<IntV(9), BoolV(FALSE)>>

(***************************************************************************)
(* C19.  And, Or and Xor pop both operands and push                        *)
(* Boolean(truthy(a) op truthy(b)); Not pops one operand and pushes        *)
(* Boolean(not truthy(a)); none of them fails with TypeError, whatever the *)
(* operand types; with too few operands they fail with a stack underflow.  *)
(* Truthy are Boolean true, a non-zero Integer, a non-zero Float, a        *)
(* non-empty string and any object; Null never is.                         *)
(***************************************************************************)
C19_Truthy(v) ==
    \/ v.tag = "Boolean" /\ v.b
    \/ v.tag = "Integer" /\ v.i # 0
    \/ v.tag = "Float" /\ v.i # 0
    \/ v.tag \in {"String", "GcString"} /\ v.s # ""
    \/ v.tag = "GcObject"

C19_Binary(op) ==
    LET a == C19_Truthy(OperandA)
        b == C19_Truthy(OperandB)
    IN CASE op = "And" -> a /\ b
         [] op = "Or" -> a \/ b
         [] op = "Xor" -> a # b

C19_Arity(op) == IF op = "Not" THEN 1 ELSE 2

C19_LogicStep ==
    /\ Executes({"And", "Or", "Xor"}, 2)
          => Yields(BoolV(C19_Binary(last_instr'.opcode)))
    /\ Executes({"Not"}, 1)
          => /\ last_result' = "Ok"
             /\ operand_stack'.values =
                    Append(Front(StackValuesNow), BoolV(~C19_Truthy(Last(StackValuesNow))))
    /\ Executes(LogicOps, 0)
          => /\ last_result' # "TypeError"
             /\ Len(StackValuesNow) < C19_Arity(last_instr'.opcode)
                    => last_result' = "StackUnderflow"

C19_Logic == [][C19_LogicStep]_vars

\* Not on 9, Null, b with b not truthy left 9, Null, true: one operand was
\* popped and the Null below is untouched.
C19_Witness ==
    /\ last_call = "execute" /\ last_instr = Op0("Not") /\ last_result = "Ok"
    /\ ICount = 1
    /\ StackValuesNow = <<IntV(9), NullV, BoolV(TRUE)>>

(***************************************************************************)
(* SpecLocals: the dispatcher driven directly, as memory_operations_tests  *)
(* does, on a call stack whose frames have local slots: frames are pushed  *)
(* with CallFrame::new(_, _, n) and Load / Store are executed against the  *)
(* current frame.                                                          *)
(***************************************************************************)
MaxLocals == 2
MaxFrames == 2
MaxLocalOps == 3

LocalsStacks ==
    { <<>>, <<IntV(7)>>, <<StrV("a")>>, <<BoolV(TRUE), IntV(7)>>, <<IntV(7), StrV("a")>> }

LocalIndexes == -1..MaxLocals

LocalsInstrs ==
    { OpI(op, i) : op \in {"Load", "Store"}, i \in LocalIndexes }
        \cup { Op0("Load"), Op0("Store"), Instr("Store", StrV("a")) }

InitLocals ==
    /\ operand_stack \in { [OperandStack_new EXCEPT !.values = st] : st \in LocalsStacks }
    /\ call_stack = CallStack_new
    /\ program = <<>>
    /\ constants = <<>>
    /\ dispatcher = InstructionDispatcher_new
    /\ heap = Heap_new
    /\ profiler = NoProfiler
    /\ halted = FALSE
    /\ max_instructions = 0
    /\ last_call = "new"
    /\ last_result = "Ok"
    /\ last_instr = NoInstr
    /\ returned = NullV

\* call_stack.push(CallFrame::new(depth, 0, n))
PushFrame ==
    /\ Alive /\ Len(call_stack.frames) < MaxFrames
    /\ \E n \in 0..MaxLocals :
          \E r \in {callstack_push(call_stack, CallFrame_new(Len(call_stack.frames), 0, n))} :
              /\ call_stack' = r.cs
              /\ last_result' = r.res
    /\ last_call' = "push_frame"
    /\ last_instr' = NoInstr
    /\ returned' = NullV
    /\ UNCHANGED <<program, constants, operand_stack, dispatcher, heap, halted,
                   max_instructions, profiler>>

LocalsCtx ==
    MkCtx(operand_stack, call_stack, dispatcher.program_counter,
          dispatcher.instruction_count, heap)

SetCtx(x) ==
    /\ operand_stack' = x.stack
    /\ call_stack' = x.cs
    /\ dispatcher' = [program_counter |-> x.pc, instruction_count |-> x.icount]
    /\ heap' = x.heap
    /\ last_result' = x.res

\* dispatcher.execute(&instr, &mut stack, &mut call_stack, &mut heap)
ExecuteLocal ==
    /\ Alive /\ dispatcher.instruction_count < MaxLocalOps
    /\ \E instr \in LocalsInstrs :
          /\ SetCtx(execute_with_constants(LocalsCtx, instr, constants))
          /\ last_instr' = instr
    /\ last_call' = "execute"
    /\ returned' = NullV
    /\ UNCHANGED <<program, constants, halted, max_instructions, profiler>>

\* execute(Store i)?; execute(Load i): the second call is made only when the
\* first returned Ok.
StoreThenLoad ==
    /\ Alive /\ dispatcher.instruction_count + 1 < MaxLocalOps
    /\ \E i \in LocalIndexes :
          /\ \E s \in {execute_with_constants(LocalsCtx, OpI("Store", i), constants)} :
                IF s.res # "Ok" THEN SetCtx(s)
                ELSE SetCtx(execute_with_constants(s, OpI("Load", i), constants))
          /\ last_instr' = OpI("Load", i)
    /\ last_call' = "store_load"
    /\ returned' = NullV
    /\ UNCHANGED <<program, constants, halted, max_instructions, profiler>>

NextLocals == PushFrame \/ ExecuteLocal \/ StoreThenLoad

SpecLocals == InitLocals /\ [][NextLocals]_vars

(***************************************************************************)
(* C20.  With a current frame having local_count > i: Store i pops the top *)
(* value v and writes it to local i of that frame, every other local of    *)
(* every frame unchanged; Load i pushes a copy of local i and changes no   *)
(* local; Store i followed by Load i leaves v on the stack and in local i; *)
(* a local of a frame just created reads as Null.  Load or Store with no   *)
(* current frame or with an index outside the frame's locals fails with an *)
(* error and changes no local.                                             *)
(***************************************************************************)
C20_Top == call_stack.frames[Len(call_stack.frames)]
C20_Index == last_instr'.operand.i

C20_HasLocal ==
    /\ Len(call_stack.frames) > 0
    /\ last_instr'.operand.tag = "Integer"
    /\ C20_Index >= 0 /\ C20_Index < Len(C20_Top.locals)

C20_Locals(cs) == [f \in 1..Len(cs.frames) |-> cs.frames[f].locals]

C20_StoreStep ==
    (Executes({"Store"}, 1) /\ C20_HasLocal)
        => /\ last_result' = "Ok"
           /\ operand_stack'.values = Front(StackValuesNow)
           /\ Len(call_stack'.frames) = Len(call_stack.frames)
           /\ \A f \in 1..Len(call_stack.frames) :
                 /\ Len(call_stack'.frames[f].locals) = Len(call_stack.frames[f].locals)
                 /\ \A k \in 1..Len(call_stack.frames[f].locals) :
                       call_stack'.frames[f].locals[k] =
                           IF f = Len(call_stack.frames) /\ k = C20_Index + 1
                           THEN Last(StackValuesNow)
                           ELSE call_stack.frames[f].locals[k]

C20_LoadStep ==
    (Executes({"Load"}, 0) /\ C20_HasLocal)
        => /\ last_result' = "Ok"
           /\ operand_stack'.values = Append(StackValuesNow, C20_Top.locals[C20_Index + 1])
           /\ C20_Locals(call_stack') = C20_Locals(call_stack)
           /\ (last_call = "push_frame" /\ last_result = "Ok")
                 => Last(operand_stack'.values) = NullV

C20_RoundTrip ==
    (last_call' = "store_load" /\ Len(StackValuesNow) >= 1 /\ C20_HasLocal)
        => /\ last_result' = "Ok"
           /\ operand_stack'.values = StackValuesNow
           /\ call_stack'.frames[Len(call_stack.frames)].locals[C20_Index + 1]
                 = Last(StackValuesNow)

C20_Failure ==
    ( /\ last_call' \in {"execute", "store_load"}
      /\ last_instr'.opcode \in {"Load", "Store"}
      /\ last_instr'.operand.tag = "Integer"
      /\ ~C20_HasLocal )
        => /\ last_result' \in ExecutionErrors
           /\ C20_Locals(call_stack') = C20_Locals(call_stack)

C20_LoadStore ==
    [][C20_StoreStep /\ C20_LoadStep /\ C20_RoundTrip /\ C20_Failure]_vars

\* Store 1; Load 1 on the stack true, 7 under a frame of two locals: the 7 is
\* back on the stack and in local 1, local 0 still reads Null.
C20_Witness ==
    /\ last_call = "store_load" /\ last_instr = OpI("Load", 1) /\ last_result = "Ok"
    /\ ICount = 2
    /\ StackValuesNow = <<BoolV(TRUE), IntV(7)>>
    /\ Len(call_stack.frames) = 1
    /\ call_stack.frames[1].locals = <<NullV, IntV(7)>>

(***************************************************************************)
(* SpecHeap: the heap and the object opcodes driven directly.  The caller  *)
(* allocates strings and objects (with or without fields) and keeps each   *)
(* pointer it gets on the operand stack, executes NewObject, GetField and  *)
(* SetField, and collects garbage with the pointers it still holds as the  *)
(* root set.                                                               *)
(***************************************************************************)
MaxHeapObjects == 2
MaxHeapOps == 2

\* Heap limits: room for one string or one empty object, and room for an
\* object with fields.
HeapLimits == {60, 200}
\* Heap::new() or Heap::with_initial_size(m), allocation tracking enabled or
\* not before the first allocation.
HeapsAtStart ==
    { Heap_new, enable_allocation_tracking(Heap_new),
      enable_allocation_tracking(Heap_with_initial_size(60)) }
        \cup { Heap_with_initial_size(m) : m \in HeapLimits }
HeapStrings == {"", "kept"}
HeapFieldSets ==
    { NoFields, [n \in {"x"} |-> IntV(5)], [n \in {"field_0"} |-> StrV("a")] }

HeapInstrs ==
    { Op0("NewObject"), Op0("Pop"), OpI("Push", 1),
      Instr("GetField", StrV("x")), OpI("GetField", 0),
      Op0("GetField"), Instr("GetField", BoolV(TRUE)),
      Instr("SetField", StrV("x")),
      Op0("SetField"), Instr("SetField", BoolV(TRUE)) }

InitHeap ==
    /\ heap \in HeapsAtStart
    /\ operand_stack = OperandStack_new
    /\ call_stack = CallStack_new
    /\ program = <<>>
    /\ constants = <<>>
    /\ dispatcher = InstructionDispatcher_new
    /\ profiler = NoProfiler
    /\ halted = FALSE
    /\ max_instructions = 0
    /\ last_call = "new"
    /\ last_result = "Ok"
    /\ last_instr = NoInstr
    /\ returned = NullV

HeapFrame ==
    UNCHANGED <<program, constants, call_stack, halted, max_instructions, profiler>>

CanAllocate == Alive /\ heap.next_object_id <= MaxHeapObjects

\* heap.allocate_string(value): returned is the GcPtr<String> it gives back.
AllocateString ==
    /\ CanAllocate
    /\ \E value \in HeapStrings :
          \E a \in {allocate_string(heap, value)} :
              /\ heap' = a.heap
              /\ last_result' = a.res
              /\ returned' = IF a.res = "Ok" THEN GcStringV(a.id, value) ELSE NullV
    /\ last_call' = "allocate_string"
    /\ last_instr' = NoInstr
    /\ UNCHANGED <<operand_stack, dispatcher>>
    /\ HeapFrame

\* heap.allocate_object(object): returned is the GcPtr<Object> it gives back.
AllocateObject ==
    /\ CanAllocate
    /\ \E fields \in HeapFieldSets :
          \E a \in {allocate_object(heap, ObjectSize(fields))} :
              /\ heap' = a.heap
              /\ last_result' = a.res
              /\ returned' = IF a.res = "Ok" THEN GcObjectWithV(a.id, fields) ELSE NullV
    /\ last_call' = "allocate_object"
    /\ last_instr' = NoInstr
    /\ UNCHANGED <<operand_stack, dispatcher>>
    /\ HeapFrame

\* stack.push(Value::GcString(p)) or stack.push(Value::GcObject(p)), p the
\* pointer the allocation before it gave back.
PushAllocated ==
    /\ Alive
    /\ last_call \in {"allocate_string", "allocate_object"} /\ last_result = "Ok"
    /\ \E p \in {stack_push(operand_stack, returned)} :
          /\ operand_stack' = p.st
          /\ last_result' = IF p.panic THEN "Panic" ELSE "Ok"
    /\ last_call' = "push"
    /\ last_instr' = NoInstr
    /\ returned' = NullV
    /\ UNCHANGED <<heap, dispatcher>>
    /\ HeapFrame

\* heap.enable_allocation_tracking(), one of the calls of SpecHeapGc.
EnableAllocationTracking ==
    /\ Alive
    /\ heap' = enable_allocation_tracking(heap)
    /\ last_call' = "enable_allocation_tracking"
    /\ last_result' = "Ok"
    /\ last_instr' = NoInstr
    /\ returned' = NullV
    /\ UNCHANGED <<operand_stack, dispatcher>>
    /\ HeapFrame

\* dispatcher.execute(&instr, &mut stack, &mut call_stack, &mut heap)
ExecuteHeapInstr ==
    /\ Alive /\ dispatcher.instruction_count < MaxHeapOps
    /\ \E instr \in HeapInstrs :
          /\ instr.opcode = "NewObject" => CanAllocate
          /\ SetCtx(execute_with_constants(LocalsCtx, instr, constants))
          /\ last_instr' = instr
    /\ last_call' = "execute"
    /\ returned' = NullV
    /\ UNCHANGED <<program, constants, halted, max_instructions, profiler>>

\* The object ids of the pointers of one kind held on the operand stack.
HeldPointers(kind) ==
    { operand_stack.values[k].i :
        k \in { j \in 1..Len(operand_stack.values) : operand_stack.values[j].tag = kind } }

\* heap.collect_garbage(&roots), the roots being every GcPtr<T> held.
CollectGarbage(kind) ==
    /\ Alive
    /\ \E g \in {collect_garbage(heap, HeldPointers(kind))} :
          /\ heap' = g.heap
          /\ returned' = IntV(g.count)
    /\ last_result' = "Ok"
    /\ last_instr' = NoInstr
    /\ UNCHANGED <<operand_stack, dispatcher>>
    /\ HeapFrame

CollectGarbageStrings ==
    CollectGarbage("GcString") /\ last_call' = "collect_garbage_strings"
CollectGarbageObjects ==
    CollectGarbage("GcObject") /\ last_call' = "collect_garbage_objects"

NextHeap ==
    \/ AllocateString \/ AllocateObject \/ PushAllocated
    \/ ExecuteHeapInstr \/ CollectGarbageStrings \/ CollectGarbageObjects

SpecHeap == InitHeap /\ [][NextHeap]_vars

(***************************************************************************)
(* C21.  SetField always returns an error and restores the stack: whatever *)
(* the operand stack and the operand are, after the instruction the stack  *)
(* holds the same values in the same order as before it, and the heap is   *)
(* as it was.                                                              *)
(***************************************************************************)
C21_SetFieldStep == last_call' = "execute" /\ last_instr'.opcode = "SetField"

C21_SetFieldRestoresStack ==
    [][C21_SetFieldStep
         => /\ last_result' \in ExecutionErrors
            /\ operand_stack'.values = StackValuesNow
            /\ heap' = heap]_vars

(***************************************************************************)
(* C22.  GetField with a String operand n, or an Integer operand i meaning *)
(* the field field_i, pops the top value; when that is a GcObject it       *)
(* pushes the value of the field, or Null when the object has no such      *)
(* field, so the depth is unchanged; when it is not a GcObject the         *)
(* instruction fails with TypeError; a missing or other-typed operand      *)
(* fails before anything is popped.                                        *)
(***************************************************************************)
C22_GetFieldStep(n) ==
    last_call' = "execute" /\ last_instr'.opcode = "GetField" /\ Len(StackValuesNow) >= n

C22_OperandNamesField == last_instr'.operand.tag \in {"String", "Integer"}

\* The field the operand names (the model's Integer operands are 0 and 1).
C22_Field ==
    IF last_instr'.operand.tag = "String" THEN last_instr'.operand.s
    ELSE IF last_instr'.operand.i = 0 THEN "field_0" ELSE "field_1"

C22_FieldValue(object) ==
    IF C22_Field \in DOMAIN object.f THEN object.f[C22_Field] ELSE NullV

C22_Step ==
    /\ (C22_GetFieldStep(0) /\ ~C22_OperandNamesField)
          => /\ last_result' \in ExecutionErrors
             /\ operand_stack'.values = StackValuesNow
    /\ (C22_GetFieldStep(1) /\ C22_OperandNamesField)
          => IF Last(StackValuesNow).tag = "GcObject"
             THEN /\ last_result' = "Ok"
                  /\ operand_stack'.values =
                        Append(Front(StackValuesNow), C22_FieldValue(Last(StackValuesNow)))
             ELSE last_result' = "TypeError"

C22_GetField == [][C22_Step]_vars

\* GetField 0 on an object allocated with field_0 = "a" left "a" in its place.
C22_Witness ==
    /\ last_call = "execute" /\ last_instr = OpI("GetField", 0) /\ last_result = "Ok"
    /\ ICount = 1
    /\ StackValuesNow = <<StrV("a")>>

(***************************************************************************)
(* C23.  Heap monotonicity.  A successful allocate_string, allocate_object *)
(* or NewObject adds exactly 1 to allocated_objects and adds the same      *)
(* strictly positive size to current_heap_size and total_allocated_bytes.  *)
(* An allocation that fails changes no field of the heap (counters, next   *)
(* object id, generation counts, allocation statistics), and a failing     *)
(* NewObject pushes nothing; NewObject fails exactly when the heap has a   *)
(* limit and the current size plus the object's size exceeds it.           *)
(***************************************************************************)
C23_NewObject == last_call' = "execute" /\ last_instr'.opcode = "NewObject"

C23_Allocates ==
    \/ last_call' \in {"allocate_string", "allocate_object"}
    \/ C23_NewObject

C23_Grown == heap'.current_heap_size - heap.current_heap_size

C23_Success ==
    /\ heap'.allocated_objects = heap.allocated_objects + 1
    /\ C23_Grown > 0
    /\ heap'.total_allocated_bytes - heap.total_allocated_bytes = C23_Grown

C23_OverLimit ==
    heap.max_heap_size.some /\ heap.current_heap_size + 48 > heap.max_heap_size.val

C23_Step ==
    /\ C23_Allocates
          => IF last_result' = "Ok" THEN C23_Success ELSE heap' = heap
    /\ (last_call' \in {"allocate_string", "allocate_object"} /\ last_result' # "Ok")
          => heap.max_heap_size.some
    /\ C23_NewObject
          => /\ (last_result' # "Ok") = C23_OverLimit
             /\ last_result' # "Ok" => operand_stack' = operand_stack
             /\ last_result' = "Ok"
                   => Len(operand_stack'.values) = Len(StackValuesNow) + 1

C23_HeapMonotonic == [][C23_Step]_vars

\* In a heap limited to 60 bytes holding one empty object (48 bytes), NewObject
\* failed: the counters still show the one object and nothing was pushed.
C23_Witness ==
    /\ last_call = "execute" /\ last_instr = Op0("NewObject")
    /\ last_result = "InvalidOperand"
    /\ heap.allocated_objects = 1 /\ heap.current_heap_size = 48
    /\ heap.next_object_id = 2
    /\ Len(StackValuesNow) = 1

(***************************************************************************)
(* C24.  collect_garbage(roots) collects only objects outside the root     *)
(* set: after it, allocated_objects is at least the number of distinct     *)
(* allocated objects the roots refer to, and the count it returns is the   *)
(* decrease of allocated_objects.                                          *)
(***************************************************************************)
C24_Roots ==
    IF last_call' = "collect_garbage_strings" THEN HeldPointers("GcString")
    ELSE HeldPointers("GcObject")

C24_CollectStep ==
    last_call' \in {"collect_garbage_strings", "collect_garbage_objects"}
        => /\ heap'.allocated_objects >= Cardinality(C24_Roots)
           /\ returned' = IntV(heap.allocated_objects - heap'.allocated_objects)

C24_RootsSurvive == [][C24_CollectStep]_vars

(***************************************************************************)
(* SpecOperands: the dispatcher executing the operand-taking opcodes with  *)
(* every shape of operand (absent, Integer of either sign, other types),   *)
(* on empty and non-empty operand stacks, with and without a frame.        *)
(***************************************************************************)
MaxOperandOps == 2

OperandOpcodes ==
    { "Push", "Jump", "JumpIfTrue", "JumpIfFalse", "Call", "Load", "Store",
      "GetField", "SetField" }

OperandShapes ==
    { NoOperand, IntV(-1), IntV(-5), IntV(0), IntV(2), StrV("a"), BoolV(TRUE), NullV }

OperandInstrs == { Instr(op, operand) : op \in OperandOpcodes, operand \in OperandShapes }

OperandStacks ==
    { <<>>, <<BoolV(TRUE)>>, <<BoolV(FALSE)>>, <<IntV(9), NullV>>, <<StrV("a"), IntV(3)>> }

InitOperands ==
    /\ operand_stack \in { [OperandStack_new EXCEPT !.values = st] : st \in OperandStacks }
    /\ call_stack \in { CallStack_new,
                         callstack_push_unchecked(CallStack_new, CallFrame_new(0, 0, 1)) }
    /\ program = <<>>
    /\ constants = <<>>
    /\ dispatcher = InstructionDispatcher_new
    /\ heap = Heap_new
    /\ profiler = NoProfiler
    /\ halted = FALSE
    /\ max_instructions = 0
    /\ last_call = "new"
    /\ last_result = "Ok"
    /\ last_instr = NoInstr
    /\ returned = NullV

\* dispatcher.execute(&instr, &mut stack, &mut call_stack, &mut heap)
ExecuteOperand ==
    /\ Alive /\ dispatcher.instruction_count < MaxOperandOps
    /\ \E instr \in OperandInstrs :
          /\ SetCtx(execute_with_constants(LocalsCtx, instr, constants))
          /\ last_instr' = instr
    /\ last_call' = "execute"
    /\ returned' = NullV
    /\ UNCHANGED <<program, constants, halted, max_instructions, profiler>>

NextOperands == ExecuteOperand

SpecOperands == InitOperands /\ [][NextOperands]_vars

(***************************************************************************)
(* C25 (as stated).  Jump, JumpIfTrue, JumpIfFalse or Call with a negative *)
(* Integer operand fails with InvalidJumpAddress whatever the operand      *)
(* stack contains, and does not change the PC.                             *)
(***************************************************************************)
C25_NegativeTarget(ops) ==
    /\ last_call' = "execute"
    /\ last_instr'.opcode \in ops
    /\ last_instr'.operand.tag = "Integer" /\ last_instr'.operand.i < 0

C25_Rejected == last_result' = "InvalidJumpAddress" /\ dispatcher'.program_counter = PC

C25_NegativeAlwaysRejected ==
    [][C25_NegativeTarget({"Jump", "JumpIfTrue", "JumpIfFalse", "Call"})
         => C25_Rejected]_vars

(***************************************************************************)
(* C25 (amended).  Jump and Call with a negative Integer operand always    *)
(* fail with InvalidJumpAddress.  JumpIfTrue and JumpIfFalse with a        *)
(* negative operand pop the condition first: on an empty stack they fail   *)
(* with a stack underflow, when the condition selects the jump they fail   *)
(* with InvalidJumpAddress, and otherwise they return Ok.  In every case   *)
(* the PC and the call stack are unchanged.                                *)
(***************************************************************************)
C25_Truthy(v) ==
    \/ v.tag = "Boolean" /\ v.b
    \/ v.tag \in {"Integer", "Float"} /\ v.i # 0
    \/ v.tag \in {"String", "GcString"} /\ v.s # ""
    \/ v.tag = "GcObject"

C25_Selected ==
    (last_instr'.opcode = "JumpIfTrue") = C25_Truthy(Last(StackValuesNow))

C25_AmendedStep ==
    /\ C25_NegativeTarget({"Jump", "Call"})
          => C25_Rejected /\ operand_stack' = operand_stack
    /\ C25_NegativeTarget({"JumpIfTrue", "JumpIfFalse"})
          => /\ last_result' =
                   IF StackValuesNow = <<>> THEN "StackUnderflow"
                   ELSE IF C25_Selected THEN "InvalidJumpAddress" ELSE "Ok"
             /\ StackValuesNow # <<>> => operand_stack'.values = Front(StackValuesNow)
    /\ C25_NegativeTarget({"Jump", "JumpIfTrue", "JumpIfFalse", "Call"})
          => dispatcher'.program_counter = PC /\ call_stack' = call_stack

C25_NegativeRejectedWhenTaken == [][C25_AmendedStep]_vars

\* After Jump 2 moved the PC to 2, a jump to -5 failed and left it there.
C25_Witness ==
    /\ last_call = "execute" /\ last_instr = OpI("Jump", -5)
    /\ last_result = "InvalidJumpAddress"
    /\ ICount = 2 /\ PC = 2

(***************************************************************************)
(* C26.  Operand errors are classified the same way for every              *)
(* operand-taking opcode: an absent operand yields InsufficientOperands,   *)
(* and an operand that is present but not an Integer where an Integer is   *)
(* required (Jump, JumpIfTrue, JumpIfFalse, Call, Load, Store) yields      *)
(* InvalidOperand.                                                         *)
(***************************************************************************)
C26_IntegerOpcodes == {"Jump", "JumpIfTrue", "JumpIfFalse", "Call", "Load", "Store"}

C26_Step ==
    (last_call' = "execute" /\ last_instr'.opcode \in OperandOpcodes)
        => /\ last_instr'.operand.tag = "None"
                 => last_result' = "InsufficientOperands"
           /\ ( /\ last_instr'.opcode \in C26_IntegerOpcodes
                /\ last_instr'.operand.tag \notin {"None", "Integer"} )
                 => last_result' = "InvalidOperand"

C26_UniformOperandErrors == [][C26_Step]_vars

(***************************************************************************)
(* C27.  Profiling never affects execution.  Whatever the profiler holds,  *)
(* a step, run or reset gives the same result (Ok or the same error kind)  *)
(* and the same PC, operand stack, call stack, halted flag and             *)
(* instruction_count as the same call on the same VM without a profiler;   *)
(* and enabling, disabling or resetting the profiler changes none of       *)
(* these.  Two VMs that differ only in profiling and receive the same      *)
(* calls therefore agree after every call.                                 *)
(***************************************************************************)
\* What the claim observes of a VM.
C27_Observed(vm) ==
    [pc |-> vm.dispatcher.program_counter,
     instruction_count |-> vm.dispatcher.instruction_count,
     operand_stack |-> vm.operand_stack,
     call_stack |-> vm.call_stack,
     halted |-> vm.halted]

\* The same VM with profiling never enabled.
C27_Unprofiled == [VmState EXCEPT !.profiler = NoProfiler]

C27_SameAs(r) ==
    last_result' = r.res /\ C27_Observed(VmState') = C27_Observed(r.vm)

C27_Step ==
    /\ last_call' = "step" => C27_SameAs(vm_step(C27_Unprofiled))
    /\ last_call' = "run" => C27_SameAs(vm_run(C27_Unprofiled))
    /\ last_call' = "reset"
          => C27_Observed(VmState') = C27_Observed(vm_reset(C27_Unprofiled))
    /\ last_call' \in {"enable_profiling", "disable_profiling", "reset_profiler"}
          => C27_Observed(VmState') = C27_Observed(VmState)

C27_ProfilingIsTransparent == [][C27_Step]_vars

\* A profiled run of the faulting program: the profiler has counted the
\* instructions and run returned the error it returns unprofiled.
C27_Witness ==
    /\ last_call = "run" /\ last_result \in ExecutionErrors
    /\ profiler.some
    /\ ProfileSum(profiler.instruction_profiles) >= 2
    /\ program = FaultingProgram

(***************************************************************************)
(* SpecProfiler: a HotSpotProfiler used on its own, as                     *)
(* jit_profiling_tests does.  returned holds what the last call returned   *)
(* (the document of export_profile_data) and last_instr the argument of    *)
(* the last call (the document given to import_profile_data).              *)
(***************************************************************************)
MaxRecords == 3

\* Function ids, loop PCs and profiled PCs.
ProfilerKeys == {1, 2}
ObservedValues == { IntV(42), StrV("a") }

\* The JSON {"function_counts":{},"loop_counts":{},"type_profiles":{},
\* "branch_profiles":{}} and documents that differ from it in one place.
EmptyDoc ==
    [parsable |-> TRUE,
     function_counts |-> JsonField(NoCounts),
     loop_counts |-> JsonField(NoCounts),
     type_profiles |-> JsonField(NoCounts),
     branch_profiles |-> JsonField(NoCounts)]

ImportDocs ==
    { EmptyDoc,
      [EmptyDoc EXCEPT !.parsable = FALSE],
      [EmptyDoc EXCEPT !.loop_counts.present = FALSE],
      [EmptyDoc EXCEPT !.function_counts.typed = FALSE],
      [EmptyDoc EXCEPT !.function_counts.map = [k \in {"abc"} |-> 1]],
      [EmptyDoc EXCEPT !.type_profiles.map = [k \in {"abc"} |-> [n \in {"integer"} |-> 1]]],
      [EmptyDoc EXCEPT !.branch_profiles.map = [k \in {"abc", "1"} |-> <<1, 0>>]] }

\* The number of events a profiler's tables hold.
RECURSIVE TypeObservations(_)
TypeObservations(map) ==
    IF DOMAIN map = {} THEN 0
    ELSE LET k == CHOOSE q \in DOMAIN map : TRUE
         IN map[k].total_observations
              + TypeObservations([q \in DOMAIN map \ {k} |-> map[q]])

RECURSIVE BranchObservations(_)
BranchObservations(map) ==
    IF DOMAIN map = {} THEN 0
    ELSE LET k == CHOOSE q \in DOMAIN map : TRUE
         IN map[k].taken_count + map[k].not_taken_count
              + BranchObservations([q \in DOMAIN map \ {k} |-> map[q]])

ProfilerLoad(prof) ==
    SumCounts(prof.function_counts) + SumCounts(prof.loop_counts)
      + TypeObservations(prof.type_profiles)
      + BranchObservations(prof.branch_profiles)

CanRecord ==
    ProfilerLoad(profiler) < MaxRecords /\ profiler.total_executions < MaxRecords

\* HotSpotProfiler::new() and with_thresholds(function, loop).
ProfilersAtStart ==
    { HotSpotProfiler_new, HotSpotProfiler_with_thresholds(2, 1),
      HotSpotProfiler_with_thresholds(0, 3) }

InitProfiler ==
    /\ profiler \in ProfilersAtStart
    /\ operand_stack = OperandStack_new
    /\ call_stack = CallStack_new
    /\ program = <<>>
    /\ constants = <<>>
    /\ dispatcher = InstructionDispatcher_new
    /\ heap = Heap_new
    /\ halted = FALSE
    /\ max_instructions = 0
    /\ last_call = "new"
    /\ last_result = "Ok"
    /\ last_instr = NoInstr
    /\ returned = NullV

ProfilerFrame ==
    UNCHANGED <<program, constants, operand_stack, call_stack, dispatcher, heap,
                halted, max_instructions>>

\* A call that returns nothing and takes no document.
ProfilerCall(name, prof) ==
    /\ profiler' = prof
    /\ last_call' = name
    /\ last_result' = "Ok"
    /\ last_instr' = NoInstr
    /\ returned' = NullV
    /\ ProfilerFrame

RecordFunctionEntry ==
    /\ CanRecord
    /\ \E id \in ProfilerKeys :
          ProfilerCall("record_function_entry", record_function_entry(profiler, id))

RecordLoopIteration ==
    /\ CanRecord
    /\ \E pc \in ProfilerKeys :
          ProfilerCall("record_loop_iteration", record_loop_iteration(profiler, pc))

RecordTypeObservation ==
    /\ CanRecord
    /\ \E pc \in ProfilerKeys, value \in ObservedValues :
          ProfilerCall("record_type_observation",
                       record_type_observation(profiler, pc, value))

RecordBranchTaken ==
    /\ CanRecord
    /\ \E pc \in ProfilerKeys, taken \in BOOLEAN :
          ProfilerCall("record_branch_taken", record_branch_taken(profiler, pc, taken))

ProfilerReset == ProfilerCall("reset", profiler_reset(profiler))

ExportProfileData ==
    /\ returned' = export_profile_data(profiler)
    /\ last_call' = "export_profile_data"
    /\ last_result' = "Ok"
    /\ last_instr' = NoInstr
    /\ UNCHANGED profiler
    /\ ProfilerFrame

\* import_profile_data(&data), data being the text just exported or one of
\* ImportDocs.
ImportProfileData ==
    /\ \E doc \in ImportDocs \cup
                   (IF last_call = "export_profile_data" THEN {returned} ELSE {}) :
          \E r \in {import_profile_data(profiler, doc)} :
              /\ profiler' = r.prof
              /\ last_result' = r.res
              /\ last_instr' = doc
    /\ last_call' = "import_profile_data"
    /\ returned' = NullV
    /\ ProfilerFrame

NextProfiler ==
    \/ RecordFunctionEntry \/ RecordLoopIteration \/ RecordTypeObservation
    \/ RecordBranchTaken \/ ProfilerReset \/ ExportProfileData \/ ImportProfileData

SpecProfiler == InitProfiler /\ [][NextProfiler]_vars

(***************************************************************************)
(* C28: export_profile_data then import_profile_data, into the same or     *)
(* into another profiler, succeeds and restores the function counts, the   *)
(* loop counts, every PC's type frequencies and total_observations and     *)
(* every PC's taken / not-taken counts; exporting again gives the same     *)
(* document.                                                               *)
(***************************************************************************)
C28_Keys == 0 .. 3

C28_TypeNames ==
    {"integer", "float", "boolean", "string", "gc_string", "gc_object", "null"}

\* The profilers the document is imported into: a fresh one, the exporter
\* itself and one holding other data.
C28_Importers ==
    { HotSpotProfiler_new, profiler,
      record_type_observation(
          record_branch_taken(
              record_function_entry(record_loop_iteration(HotSpotProfiler_new, 3), 3),
              3, TRUE),
          3, BoolV(TRUE)) }

C28_SameTypes(a, b) ==
    /\ DOMAIN a.type_profiles = DOMAIN b.type_profiles
    /\ \A pc \in DOMAIN a.type_profiles :
          /\ a.type_profiles[pc].total_observations
               = b.type_profiles[pc].total_observations
          /\ \A name \in C28_TypeNames :
                CountOf(a.type_profiles[pc].type_counts, name)
                  = CountOf(b.type_profiles[pc].type_counts, name)

C28_SameBranches(a, b) ==
    /\ DOMAIN a.branch_profiles = DOMAIN b.branch_profiles
    /\ \A pc \in DOMAIN a.branch_profiles :
          /\ a.branch_profiles[pc].taken_count = b.branch_profiles[pc].taken_count
          /\ a.branch_profiles[pc].not_taken_count
               = b.branch_profiles[pc].not_taken_count

C28_Restored(imported) ==
    /\ \A key \in C28_Keys :
          /\ get_function_count(imported, key) = get_function_count(profiler, key)
          /\ get_loop_count(imported, key) = get_loop_count(profiler, key)
    /\ C28_SameTypes(imported, profiler)
    /\ C28_SameBranches(imported, profiler)

C28_ExportImportRoundTrip ==
    \A other \in C28_Importers :
        \E doc \in {export_profile_data(profiler)} :
            \E r \in {import_profile_data(other, doc)} :
                /\ r.res = "Ok"
                /\ C28_Restored(r.prof)
                /\ export_profile_data(r.prof) = doc

\* An exported profile with function, type and branch entries has been
\* imported, and the profiler now exports the document it was given.
C28_Witness ==
    /\ last_call = "import_profile_data"
    /\ last_result = "Ok"
    /\ last_instr = export_profile_data(profiler)
    /\ get_function_count(profiler, 1) = 1
    /\ 2 \in DOMAIN profiler.type_profiles
    /\ 2 \in DOMAIN profiler.branch_profiles

(***************************************************************************)
(* C29: import_profile_data of a document that is no valid profile (text   *)
(* that is no JSON, a missing or mistyped field, a type or branch entry    *)
(* whose key is no PC) returns an error and leaves the profiler as it was. *)
(***************************************************************************)
C29_IsJsonProfile(doc) ==
    /\ doc.parsable
    /\ doc.function_counts.present /\ doc.function_counts.typed
    /\ doc.loop_counts.present /\ doc.loop_counts.typed
    /\ doc.type_profiles.present /\ doc.type_profiles.typed
    /\ doc.branch_profiles.present /\ doc.branch_profiles.typed

C29_IsNumber(str) == \E n \in C28_Keys : DecimalStrings[n + 1] = str

C29_Valid(doc) ==
    /\ C29_IsJsonProfile(doc)
    /\ \A str \in DOMAIN doc.function_counts.map \cup DOMAIN doc.loop_counts.map
                    \cup DOMAIN doc.type_profiles.map
                    \cup DOMAIN doc.branch_profiles.map : C29_IsNumber(str)

C29_ImportStep ==
    (last_call' = "import_profile_data" /\ ~C29_Valid(last_instr'))
        => (last_result' = "Err" /\ profiler' = profiler)

C29_InvalidImportChangesNothing == [][C29_ImportStep]_vars

(***************************************************************************)
(* C30: after enable_profiling, load of a non-empty program and run,       *)
(* whatever run returns, get_hot_instructions(1) is non-empty and the      *)
(* profiler's export re-imports to the same function_counts and            *)
(* loop_counts.  As stated this fails when run dispatches nothing: step    *)
(* returns at a Halt before it profiles, and a quota of 0 ends run before  *)
(* the first step.  It holds when the first instruction is not Halt and    *)
(* max_instructions is at least 1.                                         *)
(***************************************************************************)
C30_ProfiledRun ==
    /\ last_call \in {"load_program", "load_bytecode_module"}
    /\ last_result = "Ok"
    /\ program # <<>>
    /\ profiler.some
    /\ last_call' = "run"

C30_Dispatches ==
    /\ program[1].opcode # "Halt"
    /\ max_instructions >= 1

C30_Hot(prof) ==
    \E pc \in DOMAIN prof.instruction_profiles :
        prof.instruction_profiles[pc].execution_count >= 1

C30_Reimports(prof) ==
    \E r \in {import_profile_data(HotSpotProfiler_new, export_profile_data(prof))} :
        /\ r.res = "Ok"
        /\ r.prof.function_counts = prof.function_counts
        /\ r.prof.loop_counts = prof.loop_counts

C30_StatedStep ==
    C30_ProfiledRun => (C30_Hot(profiler') /\ C30_Reimports(profiler'))

C30_AnyProgramHot == [][C30_StatedStep]_vars

C30_AmendedStep ==
    C30_ProfiledRun =>
        /\ C30_Dispatches => C30_Hot(profiler')
        /\ C30_Reimports(profiler')

C30_DispatchingProgramHot == [][C30_AmendedStep]_vars

\* A profiled run of FaultingProgram has failed and left hot instructions.
C30_Witness ==
    /\ last_call = "run"
    /\ last_result # "Ok"
    /\ profiler.some
    /\ program = FaultingProgram
    /\ get_hot_instructions(profiler, 1) # {}

(***************************************************************************)
(* C31: hot_functions() contains f exactly when the recorded entry count   *)
(* of f is strictly greater than the function threshold, and hot_loops()   *)
(* contains l exactly when the recorded iteration count of l is strictly   *)
(* greater than the loop threshold.                                        *)
(***************************************************************************)
C31_Exceeds(count, threshold) == count > threshold

C31_HotExactlyAboveThreshold ==
    \A key \in C28_Keys :
        /\ (key \in hot_functions(profiler))
              <=> C31_Exceeds(get_function_count(profiler, key),
                              profiler.function_threshold)
        /\ (key \in hot_loops(profiler))
              <=> C31_Exceeds(get_loop_count(profiler, key), profiler.loop_threshold)

(***************************************************************************)
(* SpecEntryPoints: the dispatcher's two entry points, execute and         *)
(* execute_with_constants with an empty constants pool, called with every  *)
(* opcode on the operand stacks and call stacks of InitOperands.           *)
(***************************************************************************)
MaxEntryOps == 2

AllOpcodes ==
    ArithOps \cup {"Push", "Pop", "Dup", "Swap"} \cup ControlFlowOps
      \cup EqualityOps \cup CompareOps \cup LogicOps
      \cup {"Load", "Store", "NewObject", "GetField", "SetField", "Halt"}

EntryShapes == { NoOperand, IntV(-1), IntV(0), IntV(2), StrV("a") }

\* The opcodes that read their operand take every shape of it, the others
\* take none.
EntryInstrs ==
    { Instr(op, operand) : op \in OperandOpcodes, operand \in EntryShapes }
      \cup { Op0(op) : op \in AllOpcodes \ OperandOpcodes }

EntryFrame == UNCHANGED <<program, constants, halted, max_instructions, profiler>>

\* dispatcher.execute(&instr, &mut stack, &mut call_stack)
ExecuteLegacy ==
    /\ Alive /\ dispatcher.instruction_count < MaxEntryOps
    /\ \E instr \in EntryInstrs :
          /\ SetCtx(execute(LocalsCtx, instr))
          /\ last_instr' = instr
    /\ last_call' = "execute"
    /\ returned' = NullV
    /\ EntryFrame

\* dispatcher.execute_with_constants(&instr, &mut stack, &mut call_stack, &[], &mut heap)
ExecuteWithConstants ==
    /\ Alive /\ dispatcher.instruction_count < MaxEntryOps
    /\ \E instr \in EntryInstrs :
          /\ SetCtx(execute_with_constants(LocalsCtx, instr, <<>>))
          /\ last_instr' = instr
    /\ last_call' = "execute_with_constants"
    /\ returned' = NullV
    /\ EntryFrame

NextEntryPoints == ExecuteLegacy \/ ExecuteWithConstants

SpecEntryPoints == InitOperands /\ [][NextEntryPoints]_vars

(***************************************************************************)
(* C32: for every opcode but NewObject, execute and execute_with_constants *)
(* with an empty constants pool return the same result and leave the same  *)
(* operand stack, call stack, PC and instruction_count; for NewObject,     *)
(* execute fails with InvalidOperand, leaves the stack unchanged and       *)
(* still counts the instruction.                                           *)
(***************************************************************************)
\* The call just made gave what the context x holds.
C32_Gave(x) ==
    /\ last_result' = x.res
    /\ operand_stack' = x.stack
    /\ call_stack' = x.cs
    /\ dispatcher'.program_counter = x.pc
    /\ dispatcher'.instruction_count = x.icount

C32_Step ==
    /\ (last_call' = "execute" /\ last_instr'.opcode # "NewObject")
          => C32_Gave(execute_with_constants(LocalsCtx, last_instr', <<>>))
    /\ (last_call' = "execute_with_constants" /\ last_instr'.opcode # "NewObject")
          => C32_Gave(execute(LocalsCtx, last_instr'))
    /\ (last_call' = "execute" /\ last_instr'.opcode = "NewObject")
          => /\ last_result' = "InvalidOperand"
             /\ operand_stack' = operand_stack
             /\ call_stack' = call_stack
             /\ dispatcher'.instruction_count = dispatcher.instruction_count + 1

C32_EntryPointsAgree == [][C32_Step]_vars

\* execute has pushed a String operand and has then refused a NewObject.
C32_Witness ==
    /\ last_call = "execute"
    /\ last_instr.opcode = "NewObject"
    /\ last_result = "InvalidOperand"
    /\ dispatcher.instruction_count = 2
    /\ Len(operand_stack.values) > 0
    /\ operand_stack.values[Len(operand_stack.values)] = StrV("a")

(***************************************************************************)
(* instruction.rs: the Opcode enum's discriminants (`opcode as u8`) and    *)
(* Opcode::from_u8, each from its own table in the source.  Bytes are      *)
(* written in decimal: 0x10 = 16, 0x20 = 32, 0x30 = 48, 0x40 = 64,         *)
(* 0x50 = 80, 0xFF = 255.                                                  *)
(***************************************************************************)
U8 == 0 .. 255

as_u8(opcode) ==
    CASE opcode = "Add" -> 1
      [] opcode = "Sub" -> 2
      [] opcode = "Mul" -> 3
      [] opcode = "Div" -> 4
      [] opcode = "Mod" -> 5
      [] opcode = "Push" -> 16
      [] opcode = "Pop" -> 17
      [] opcode = "Dup" -> 18
      [] opcode = "Swap" -> 19
      [] opcode = "Jump" -> 32
      [] opcode = "JumpIfTrue" -> 33
      [] opcode = "JumpIfFalse" -> 34
      [] opcode = "Call" -> 35
      [] opcode = "Return" -> 36
      [] opcode = "Equal" -> 48
      [] opcode = "NotEqual" -> 49
      [] opcode = "LessThan" -> 50
      [] opcode = "LessEqual" -> 51
      [] opcode = "GreaterThan" -> 52
      [] opcode = "GreaterEqual" -> 53
      [] opcode = "And" -> 64
      [] opcode = "Or" -> 65
      [] opcode = "Not" -> 66
      [] opcode = "Xor" -> 67
      [] opcode = "Load" -> 80
      [] opcode = "Store" -> 81
      [] opcode = "NewObject" -> 82
      [] opcode = "GetField" -> 83
      [] opcode = "SetField" -> 84
      [] opcode = "Halt" -> 255

\* Option<Opcode>
SomeOpcode(opcode) == [some |-> TRUE, opcode |-> opcode]
NoOpcode == [some |-> FALSE, opcode |-> "None"]

\* from_u8 without the arm of 0x35.
from_u8_WithoutGreaterEqual(byte) ==
    CASE byte = 1 -> SomeOpcode("Add")
      [] byte = 2 -> SomeOpcode("Sub")
      [] byte = 3 -> SomeOpcode("Mul")
      [] byte = 4 -> SomeOpcode("Div")
      [] byte = 5 -> SomeOpcode("Mod")
      [] byte = 16 -> SomeOpcode("Push")
      [] byte = 17 -> SomeOpcode("Pop")
      [] byte = 18 -> SomeOpcode("Dup")
      [] byte = 19 -> SomeOpcode("Swap")
      [] byte = 32 -> SomeOpcode("Jump")
      [] byte = 33 -> SomeOpcode("JumpIfTrue")
      [] byte = 34 -> SomeOpcode("JumpIfFalse")
      [] byte = 35 -> SomeOpcode("Call")
      [] byte = 36 -> SomeOpcode("Return")
      [] byte = 48 -> SomeOpcode("Equal")
      [] byte = 49 -> SomeOpcode("NotEqual")
      [] byte = 50 -> SomeOpcode("LessThan")
      [] byte = 51 -> SomeOpcode("LessEqual")
      [] byte = 52 -> SomeOpcode("GreaterThan")
      [] byte = 64 -> SomeOpcode("And")
      [] byte = 65 -> SomeOpcode("Or")
      [] byte = 66 -> SomeOpcode("Not")
      [] byte = 67 -> SomeOpcode("Xor")
      [] byte = 80 -> SomeOpcode("Load")
      [] byte = 81 -> SomeOpcode("Store")
      [] byte = 82 -> SomeOpcode("NewObject")
      [] byte = 83 -> SomeOpcode("GetField")
      [] byte = 84 -> SomeOpcode("SetField")
      [] byte = 255 -> SomeOpcode("Halt")
      [] OTHER -> NoOpcode

from_u8(byte) ==
    CASE byte = 1 -> SomeOpcode("Add")
      [] byte = 2 -> SomeOpcode("Sub")
      [] byte = 3 -> SomeOpcode("Mul")
      [] byte = 4 -> SomeOpcode("Div")
      [] byte = 5 -> SomeOpcode("Mod")
      [] byte = 16 -> SomeOpcode("Push")
      [] byte = 17 -> SomeOpcode("Pop")
      [] byte = 18 -> SomeOpcode("Dup")
      [] byte = 19 -> SomeOpcode("Swap")
      [] byte = 32 -> SomeOpcode("Jump")
      [] byte = 33 -> SomeOpcode("JumpIfTrue")
      [] byte = 34 -> SomeOpcode("JumpIfFalse")
      [] byte = 35 -> SomeOpcode("Call")
      [] byte = 36 -> SomeOpcode("Return")
      [] byte = 48 -> SomeOpcode("Equal")
      [] byte = 49 -> SomeOpcode("NotEqual")
      [] byte = 50 -> SomeOpcode("LessThan")
      [] byte = 51 -> SomeOpcode("LessEqual")
      [] byte = 52 -> SomeOpcode("GreaterThan")
      [] byte = 53 -> SomeOpcode("GreaterEqual")
      [] byte = 64 -> SomeOpcode("And")
      [] byte = 65 -> SomeOpcode("Or")
      [] byte = 66 -> SomeOpcode("Not")
      [] byte = 67 -> SomeOpcode("Xor")
      [] byte = 80 -> SomeOpcode("Load")
      [] byte = 81 -> SomeOpcode("Store")
      [] byte = 82 -> SomeOpcode("NewObject")
      [] byte = 83 -> SomeOpcode("GetField")
      [] byte = 84 -> SomeOpcode("SetField")
      [] byte = 255 -> SomeOpcode("Halt")
      [] OTHER -> NoOpcode

(***************************************************************************)
(* SpecOpcode: a byte and an opcode in hand, as in test_opcode_roundtrip:  *)
(* returned holds the byte, last_instr the opcode (NoInstr for none).      *)
(* TakeByte and TakeOpcode pick an input, AsU8 encodes the opcode in hand  *)
(* into the byte, FromU8 decodes the byte in hand into the opcode.         *)
(***************************************************************************)
InitOpcode ==
    /\ returned = IntV(0)
    /\ last_instr = NoInstr
    /\ operand_stack = OperandStack_new
    /\ call_stack = CallStack_new
    /\ program = <<>>
    /\ constants = <<>>
    /\ dispatcher = InstructionDispatcher_new
    /\ heap = Heap_new
    /\ profiler = NoProfiler
    /\ halted = FALSE
    /\ max_instructions = 0
    /\ last_call = "new"
    /\ last_result = "Ok"

OpcodeFrame ==
    UNCHANGED <<program, constants, operand_stack, call_stack, dispatcher, heap,
                profiler, halted, max_instructions>>

TakeByte ==
    /\ \E byte \in U8 : returned' = IntV(byte)
    /\ last_call' = "byte"
    /\ last_result' = "Ok"
    /\ UNCHANGED last_instr
    /\ OpcodeFrame

TakeOpcode ==
    /\ \E opcode \in AllOpcodes : last_instr' = Op0(opcode)
    /\ last_call' = "opcode"
    /\ last_result' = "Ok"
    /\ UNCHANGED returned
    /\ OpcodeFrame

AsU8 ==
    /\ last_instr.opcode \in AllOpcodes
    /\ returned' = IntV(as_u8(last_instr.opcode))
    /\ last_call' = "as_u8"
    /\ last_result' = "Ok"
    /\ UNCHANGED last_instr
    /\ OpcodeFrame

FromU8 ==
    /\ \E decoded \in {from_u8(returned.i)} :
          /\ last_instr' = IF decoded.some THEN Op0(decoded.opcode) ELSE NoInstr
          /\ last_result' = IF decoded.some THEN "Some" ELSE "None"
    /\ last_call' = "from_u8"
    /\ UNCHANGED returned
    /\ OpcodeFrame

NextOpcode == TakeByte \/ TakeOpcode \/ AsU8 \/ FromU8

SpecOpcode == InitOpcode /\ [][NextOpcode]_vars

(***************************************************************************)
(* C33: from_u8(b) is Some(op) exactly for the 30 bytes of the opcode map  *)
(* (0x01-0x05, 0x10-0x13, 0x20-0x24, 0x30-0x35, 0x40-0x43, 0x50-0x54,      *)
(* 0xFF), and then op as u8 = b; and decoding the byte an opcode encodes   *)
(* to gives that opcode back.                                              *)
(***************************************************************************)
C33_OpcodeBytes ==
    (1 .. 5) \cup (16 .. 19) \cup (32 .. 36) \cup (48 .. 53) \cup (64 .. 67)
      \cup (80 .. 84) \cup {255}

C33_DecodeStep ==
    last_call' = "from_u8" =>
        /\ (last_result' = "Some") <=> (returned.i \in C33_OpcodeBytes)
        /\ last_result' = "Some" => as_u8(last_instr'.opcode) = returned.i
        /\ last_call = "as_u8" => last_instr' = last_instr

C33_EncodeStep ==
    (last_call' = "as_u8" /\ last_call = "from_u8" /\ last_result = "Some")
        => returned' = returned

C33_OpcodeRoundTrip ==
    /\ [][C33_DecodeStep /\ C33_EncodeStep]_vars
    /\ [](Cardinality(C33_OpcodeBytes) = 30 /\ Cardinality(AllOpcodes) = 30)

\* GreaterEqual has been encoded to 0x35 and decoded back.
C33_Witness ==
    /\ last_call = "from_u8"
    /\ last_result = "Some"
    /\ returned = IntV(53)
    /\ last_instr = Op0("GreaterEqual")

(***************************************************************************)
(* C34: a step that returns an execution error raised during dispatch      *)
(* leaves the PC on the failing instruction and adds exactly one to         *)
(* instruction_count; a step that returns NoProgram or                      *)
(* ProgramCounterOutOfBounds changes nothing in the VM; a Return stepped    *)
(* with an empty call stack fails and leaves PC, operand stack and call     *)
(* stack unchanged.                                                         *)
(***************************************************************************)
C34_DispatchErrors ==
    { "StackUnderflow", "TypeError", "DivisionByZero", "InsufficientOperands",
      "InvalidOperand", "InvalidJumpAddress", "CallFrameError" }

C34_VmUnchanged ==
    UNCHANGED <<program, constants, operand_stack, call_stack, dispatcher, heap,
                halted, max_instructions, profiler>>

C34_Step ==
    last_call' = "step" =>
        /\ last_result' \in C34_DispatchErrors
              => /\ dispatcher'.program_counter = dispatcher.program_counter
                 /\ dispatcher'.instruction_count = dispatcher.instruction_count + 1
                 /\ ~halted /\ dispatcher.program_counter < Len(program)
        /\ last_result' \in {"NoProgram", "ProgramCounterOutOfBounds"}
              => C34_VmUnchanged
        /\ (~halted /\ dispatcher.program_counter < Len(program)
              /\ program[dispatcher.program_counter + 1].opcode = "Return"
              /\ Len(call_stack.frames) = 0)
              => /\ last_result' \in C34_DispatchErrors
                 /\ dispatcher'.program_counter = dispatcher.program_counter
                 /\ operand_stack' = operand_stack
                 /\ call_stack' = call_stack

C34_FailedStepKeepsPC == [][C34_Step]_vars

\* Push 1; Return: the second step failed on the Return at PC 1.
C34_Witness ==
    /\ last_call = "step"
    /\ last_result = "CallFrameError"
    /\ dispatcher.program_counter = 1
    /\ dispatcher.instruction_count = 2
    /\ program[2].opcode = "Return"
    /\ Len(operand_stack.values) = 1

(***************************************************************************)
(* C35: in every VM state reached through load, reset, step and run,       *)
(* stack_size() <= instruction_count() and call_depth() <=                 *)
(* instruction_count(): a step or run grows the operand stack and the call *)
(* stack by no more than the number of instructions it dispatched, and a   *)
(* failing step grows neither.                                             *)
(***************************************************************************)
C35_Sizes ==
    /\ Len(operand_stack.values) <= dispatcher.instruction_count
    /\ Len(call_stack.frames) <= dispatcher.instruction_count

C35_Dispatched == dispatcher'.instruction_count - dispatcher.instruction_count

C35_Step ==
    /\ last_call' \in {"step", "run"}
          => /\ Len(operand_stack'.values) - Len(operand_stack.values) <= C35_Dispatched
             /\ Len(call_stack'.frames) - Len(call_stack.frames) <= C35_Dispatched
    /\ (last_call' = "step" /\ last_result' # "Ok")
          => /\ Len(operand_stack'.values) <= Len(operand_stack.values)
             /\ Len(call_stack'.frames) <= Len(call_stack.frames)
    /\ (last_call' = "run" /\ max_instructions <= MAX_STACK_SIZE)
          => last_result' # "Panic"

C35_SizesBoundedByCount == []C35_Sizes /\ [][C35_Step]_vars

\* Call 0 stepped twice: the call depth has met the instruction count.
C35_Witness ==
    /\ last_call = "step"
    /\ dispatcher.instruction_count = 2
    /\ program[1].opcode = "Call"
    /\ Len(call_stack.frames) = 2

(***************************************************************************)
(* SpecVmLocals: the VM stepping and running programs that hold Load and   *)
(* Store, before and after a Call, with and without a value to store.      *)
(***************************************************************************)
VmLocalsPrograms ==
    { <<OpI("Load", 0), Op0("Halt")>>,
      <<OpI("Call", 1), OpI("Load", 0), Op0("Halt")>>,
      <<OpI("Call", 1), OpI("Load", -1), Op0("Halt")>>,
      <<OpI("Push", 1), OpI("Store", 0), Op0("Halt")>>,
      <<OpI("Call", 1), OpI("Push", 1), OpI("Store", 1), Op0("Halt")>>,
      <<OpI("Call", 1), OpI("Store", 0), Op0("Halt")>>,
      <<OpI("Store", 0), Op0("Halt")>>,
      <<OpI("Call", 1), Op0("Load"), Op0("Halt")>>,
      <<OpI("Push", 1), Instr("Store", StrV("a")), Op0("Halt")>> }

LoadVmLocalsProgram ==
    /\ Alive
    /\ \E prog \in VmLocalsPrograms :
          /\ \E vm \in {vm_load_program(VmState, prog)} : SetVm(vm)
          /\ last_instr' = ProgramArg(prog)
    /\ last_call' = "load_program"
    /\ returned' = NullV
    /\ last_result' = "Ok"

NextVmLocals == LoadVmLocalsProgram \/ Reset \/ Step \/ Run \/ TriggerGc

SpecVmLocals == Init /\ [][NextVmLocals]_vars

(***************************************************************************)
(* C36 (as stated): every frame the VM creates has zero local slots, so    *)
(* every Load and every Store stepped by the VM fails with a call-frame    *)
(* error, and the failing Store has popped its value.                      *)
(***************************************************************************)
C36_Fetched == ~halted /\ dispatcher.program_counter < Len(program)

C36_Instr == program[dispatcher.program_counter + 1]

C36_Steps(op) == last_call' = "step" /\ C36_Fetched /\ C36_Instr.opcode = op

C36_Popped ==
    operand_stack'.values
        = SubSeq(operand_stack.values, 1, Len(operand_stack.values) - 1)

C36_StatedStep ==
    /\ C36_Steps("Load") => last_result' = "CallFrameError"
    /\ C36_Steps("Store") => (last_result' = "CallFrameError" /\ C36_Popped)

C36_LoadStoreAlwaysCallFrameError == [][C36_StatedStep]_vars

(***************************************************************************)
(* C36 (amended): every frame the VM creates has zero local slots, so      *)
(* every Load and every Store stepped by the VM fails.  With an Integer    *)
(* operand, Load fails with a call-frame error and Store, when the operand *)
(* stack holds a value, pops it and fails with a call-frame error; Store   *)
(* on an empty operand stack fails with a stack underflow; an absent or    *)
(* non-Integer operand fails with InvalidOperand and pops nothing.         *)
(***************************************************************************)
C36_ZeroLocals ==
    \A k \in 1 .. Len(call_stack.frames) : Len(call_stack.frames[k].locals) = 0

C36_IntegerOperand == C36_Instr.operand.tag = "Integer"

C36_AmendedStep ==
    /\ (C36_Steps("Load") \/ C36_Steps("Store")) => last_result' # "Ok"
    /\ ((C36_Steps("Load") \/ C36_Steps("Store")) /\ ~C36_IntegerOperand)
          => (last_result' = "InvalidOperand" /\ operand_stack' = operand_stack)
    /\ (C36_Steps("Load") /\ C36_IntegerOperand)
          => (last_result' = "CallFrameError" /\ operand_stack' = operand_stack)
    /\ (C36_Steps("Store") /\ C36_IntegerOperand /\ operand_stack.values # <<>>)
          => (last_result' = "CallFrameError" /\ C36_Popped)
    /\ (C36_Steps("Store") /\ C36_IntegerOperand /\ operand_stack.values = <<>>)
          => (last_result' = "StackUnderflow" /\ operand_stack' = operand_stack)

C36_LoadStoreAlwaysFail == []C36_ZeroLocals /\ [][C36_AmendedStep]_vars

\* Call 1; Push 1; Store 1: the Store inside the called frame has failed and
\* the 1 is gone.
C36_Witness ==
    /\ last_call = "step"
    /\ last_result = "CallFrameError"
    /\ Len(call_stack.frames) = 1
    /\ dispatcher.program_counter = 2
    /\ program[3] = OpI("Store", 1)
    /\ operand_stack.values = <<>>

(***************************************************************************)
(* C37: load_program replaces the program and resets the execution state   *)
(* but leaves the constants pool as it is, so after a load_bytecode_module *)
(* with a non-empty pool c and a load_program, constants_pool_size() is    *)
(* still |c| and a Push with Integer operand i is still the pool index i:  *)
(* it pushes c[i] or fails with InvalidOperand.                            *)
(***************************************************************************)
C37_LoadStep ==
    last_call' = "load_program" =>
        /\ program' = last_instr'.instructions
        /\ constants' = constants
        /\ Len(constants') = Len(constants)
        /\ operand_stack'.values = <<>>
        /\ call_stack'.frames = <<>>
        /\ dispatcher' = InstructionDispatcher_new
        /\ ~halted'

C37_PushesIndex ==
    /\ last_call' = "step"
    /\ ~halted /\ dispatcher.program_counter < Len(program)
    /\ program[dispatcher.program_counter + 1].opcode = "Push"
    /\ program[dispatcher.program_counter + 1].operand.tag = "Integer"
    /\ constants # <<>>

C37_Index == program[dispatcher.program_counter + 1].operand.i

C37_PushStep ==
    C37_PushesIndex =>
        IF C37_Index >= 0 /\ C37_Index < Len(constants)
        THEN /\ last_result' = "Ok"
             /\ operand_stack'.values
                   = Append(operand_stack.values, constants[C37_Index + 1])
        ELSE /\ last_result' = "InvalidOperand"
             /\ operand_stack' = operand_stack

C37_LoadProgramKeepsConstants == [][C37_LoadStep /\ C37_PushStep]_vars

\* load_program has just replaced the program of a module that came with
\* three constants.
C37_Witness ==
    /\ last_call = "load_program"
    /\ Len(constants) = 3
    /\ program = <<OpI("Push", 5), Op0("Add"), Op0("Halt")>>

(***************************************************************************)
(* C38: with profiling enabled the per-PC execution counts track dispatch: *)
(* enable_profiling and reset_profiler leave a sum of 0, every step and    *)
(* run adds to the sum of execution_count what it adds to                  *)
(* instruction_count (a failing instruction is counted, a Halt is not),    *)
(* and reset and load leave the counts as they are.                        *)
(***************************************************************************)
RECURSIVE C38_Sum(_)
C38_Sum(profiles) ==
    IF DOMAIN profiles = {} THEN 0
    ELSE LET pc == CHOOSE q \in DOMAIN profiles : TRUE
         IN profiles[pc].execution_count
              + C38_Sum([q \in DOMAIN profiles \ {pc} |-> profiles[q]])

C38_Step ==
    /\ (last_call' \in {"enable_profiling", "reset_profiler"} /\ profiler'.some)
          => C38_Sum(profiler'.instruction_profiles) = 0
    /\ (last_call' \in {"step", "run"} /\ profiler.some)
          => /\ profiler'.some
             /\ C38_Sum(profiler'.instruction_profiles)
                   - C38_Sum(profiler.instruction_profiles)
                   = dispatcher'.instruction_count - dispatcher.instruction_count
    /\ last_call' \in {"reset", "load_program", "load_bytecode_module"}
          => profiler' = profiler

C38_ProfileTracksDispatch == [][C38_Step]_vars

\* Push 5; Add stepped with a fresh profiler: the failed Add is counted.
C38_Witness ==
    /\ last_call = "step"
    /\ last_result = "StackUnderflow"
    /\ profiler.some
    /\ program = FaultingProgram
    /\ dispatcher.instruction_count = 2
    /\ C38_Sum(profiler.instruction_profiles) = 2

(***************************************************************************)
(* SpecHeapGc: the heap's allocation and collection entry points called in *)
(* any order, from the heaps of InitHeap; the pointers are kept on the     *)
(* operand stack and given as roots.                                       *)
(***************************************************************************)
\* A collection entry point that returns the number of objects it handled.
Collect(name, g) ==
    /\ Alive
    /\ heap' = g.heap
    /\ returned' = IntV(g.count)
    /\ last_call' = name
    /\ last_result' = "Ok"
    /\ last_instr' = NoInstr
    /\ UNCHANGED <<operand_stack, dispatcher>>
    /\ HeapFrame

CollectYoungGeneration ==
    Collect("collect_young_generation",
            collect_young_generation(heap, HeldPointers("GcString")))

CollectFull == Collect("collect_full", collect_full(heap, HeldPointers("GcString")))

Compact ==
    /\ Alive
    /\ heap' = compact(heap, HeldPointers("GcObject"))
    /\ returned' = NullV
    /\ last_call' = "compact"
    /\ last_result' = "Ok"
    /\ last_instr' = NoInstr
    /\ UNCHANGED <<operand_stack, dispatcher>>
    /\ HeapFrame

NextHeapGc ==
    \/ AllocateString \/ AllocateObject \/ PushAllocated
    \/ EnableAllocationTracking
    \/ CollectGarbageStrings \/ CollectGarbageObjects
    \/ CollectYoungGeneration \/ CollectFull \/ Compact

SpecHeapGc == InitHeap /\ [][NextHeapGc]_vars

(***************************************************************************)
(* C39: after any sequence of allocate_string, allocate_object,            *)
(* collect_garbage, collect_young_generation, collect_full and compact,    *)
(* current_heap_size <= max_heap_size when a limit is set,                 *)
(* current_heap_size <= total_allocated_bytes, young_generation_objects    *)
(* <= allocated_objects and no counter is negative; total_allocated_bytes  *)
(* never decreases, and collect_full and compact change no counter.        *)
(***************************************************************************)
C39_Counters ==
    /\ heap.max_heap_size.some => heap.current_heap_size <= heap.max_heap_size.val
    /\ heap.current_heap_size <= heap.total_allocated_bytes
    /\ heap.young_generation_count <= heap.allocated_objects
    /\ heap.allocated_objects >= 0
    /\ heap.total_allocated_bytes >= 0
    /\ heap.current_heap_size >= 0
    /\ heap.young_generation_count >= 0
    /\ heap.old_generation_count >= 0

C39_Step ==
    /\ heap'.total_allocated_bytes >= heap.total_allocated_bytes
    /\ last_call' \in {"collect_full", "compact"} => heap' = heap

C39_HeapCounters == []C39_Counters /\ [][C39_Step]_vars

\* An object was allocated, promoted by collect_young_generation and then
\* collected: no young object is left to take away.
C39_Witness ==
    /\ last_call \in {"collect_garbage_strings", "collect_garbage_objects"}
    /\ returned = IntV(1)
    /\ heap.old_generation_count = 1
    /\ heap.young_generation_count = 0
    /\ heap.allocated_objects = 0
    /\ heap.current_heap_size = 0
    /\ heap.total_allocated_bytes > 0

(***************************************************************************)
(* The arithmetic opcodes on Integers at the ends of i64's range, in a     *)
(* build with overflow checks and in one without.  returned is the         *)
(* profile setting of the build the last instruction ran in.               *)
(***************************************************************************)
MaxInt64Ops == 2

Int64Operands ==
    {I64_MIN, I64V(-1, 1), I64V(1, -2), I64_MAX,
     IntV(-2), IntV(-1), IntV(0), IntV(1), IntV(2)}

Int64Stacks == { <<c, a, b>> : c \in {I64_MIN, IntV(-1), IntV(1)},
                               a \in Int64Operands, b \in Int64Operands }

InitInt64 ==
    /\ operand_stack \in { [OperandStack_new EXCEPT !.values = st] : st \in Int64Stacks }
    /\ call_stack = CallStack_new
    /\ program = <<>>
    /\ constants = <<>>
    /\ dispatcher = InstructionDispatcher_new
    /\ heap = Heap_new
    /\ profiler = NoProfiler
    /\ halted = FALSE
    /\ max_instructions = 0
    /\ last_call = "new"
    /\ last_result = "Ok"
    /\ last_instr = NoInstr
    /\ returned = NullV

\* The operands a Div or Mod would pop have a quotient the model can carry.
Int64Representable(op) ==
    LET n == Len(operand_stack.values)
    IN (op \in {"Div", "Mod"} /\ n >= 2)
           => DivRepresentable(operand_stack.values[n - 1], operand_stack.values[n])

\* dispatcher.execute(&Instruction::new(op), &mut stack, &mut call_stack, &mut heap)
ExecuteInt64 ==
    /\ Alive /\ dispatcher.instruction_count < MaxInt64Ops
    /\ \E op \in ArithOps, checks \in BOOLEAN :
          /\ Int64Representable(op)
          /\ SetCtx(execute_with_constants(WithOverflowChecks(LocalsCtx, checks),
                                           Op0(op), constants))
          /\ last_instr' = Op0(op)
          /\ returned' = BoolV(checks)
    /\ last_call' = "execute"
    /\ UNCHANGED <<program, constants, halted, max_instructions, profiler>>

NextInt64 == ExecuteInt64

SpecInt64 == InitInt64 /\ [][NextInt64]_vars

(***************************************************************************)
(* C40: Integer arithmetic never aborts the interpreter: for all i64       *)
(* operands a and b, each of Add, Sub, Mul, Div and Mod either pushes an   *)
(* Integer in place of its operands and returns Ok, or returns an          *)
(* ExecutionError; Div and Mod with a non-zero divisor always return Ok,   *)
(* i64::MIN with -1 included.                                              *)
(***************************************************************************)
C40_Operands ==
    /\ Len(operand_stack.values) >= 2
    /\ operand_stack.values[Len(operand_stack.values)].tag = "Integer"
    /\ operand_stack.values[Len(operand_stack.values) - 1].tag = "Integer"

C40_Pushed ==
    /\ last_result' = "Ok"
    /\ Len(operand_stack'.values) = Len(operand_stack.values) - 1
    /\ operand_stack'.values[Len(operand_stack'.values)].tag = "Integer"

C40_Step ==
    (/\ last_call' = "execute"
     /\ last_instr'.opcode \in ArithOps
     /\ C40_Operands)
        => /\ C40_Pushed \/ last_result' \in {"DivisionByZero", "TypeError"}
           /\ (/\ last_instr'.opcode \in {"Div", "Mod"}
               /\ ~IsZero(operand_stack.values[Len(operand_stack.values)]))
                  => C40_Pushed

C40_IntegerArithmeticNeverAborts == [][C40_Step]_vars

====
